---- MODULE Spec2Model ----
(***************************************************************************)
(* Model of the crawl4ai-rag-mcp server (src/src/crawl4ai_mcp.py).         *)
(*                                                                         *)
(* Part 1: the hybrid result fusion of perform_rag_query and               *)
(*         search_code_examples, as a function of two hit lists.           *)
(* Part 2: the perform_rag_query coroutine as a state machine, one action  *)
(*         per stretch of code between two awaits.                         *)
(* Part 3: smart_chunk_markdown, one action per loop iteration.            *)
(* Part 4: the RAG fan-outs of search and smart_crawl_url behind their     *)
(*         semaphore.                                                      *)
(* Part 5: _process_multiple_urls, the body of scrape_urls.                *)
(* Part 6: query_knowledge_graph and its command handlers.                 *)
(* Part 7: extract_section_info.                                           *)
(* Part 8: RateLimitMiddleware (src/src/api/middleware.py).                *)
(* Part 9: Cache and the cached decorator (src/src/utils/cache.py).        *)
(* Part 10: GracefulShutdown (src/src/shutdown.py).                        *)
(* Part 11: crawl_recursive_internal_links.                                *)
(* Each part has its own specification; the variables of the other parts   *)
(* rest at their idle values in it.                                        *)
(*                                                                         *)
(* Similarities are fixed-point numbers in thousandths (0.8 is 800).       *)
(* A hit is a record [id, similarity]; a keyword row is a record [id].     *)
(***************************************************************************)
EXTENDS Integers, Sequences, FiniteSets

VARIABLES
    pc,                 \* position of the coroutine / of the fusion runs
    use_hybrid_search,  \* os.getenv("USE_HYBRID_SEARCH") == "true"; cleared by the fallback
    use_reranking,      \* USE_RERANKING == "true" and a reranking_model is loaded
    precheck,           \* which of the guards before the searches the request trips
    match_count,        \* the match_count argument, clamped once validated
    vector_results,     \* the list object the vector search returned (mutated in place)
    keyword_results,    \* the rows the keyword search returned
    results,            \* the local variable results
    rerank_scores,      \* rerank_score of results[i], NoScore where the key is absent
    response,           \* "none" until the coroutine returns, then "success" / "failed"
    search_mode,        \* the search_mode field of a success response
    input_vector,       \* history: vector_results as the search returned it
    fused_runs,         \* history: the list each fusion run returned, in run order
    searches,           \* history: one record per backend search call
    stages,             \* history: the stages entered, in order
    prerank,            \* history: results when the reranking step was reached
    rerank_outcome,     \* history: how the reranking step ended
    requested_match_count,  \* history: the match_count argument as the caller passed it
    text,               \* smart_chunk_markdown: the argument text, a sequence of characters
    chunk_size,         \* smart_chunk_markdown: the argument chunk_size
    start,              \* smart_chunk_markdown: the local variable start
    chunks,             \* smart_chunk_markdown: the local variable chunks
    windows,            \* history: [start, end, final] of each loop iteration, in order
    iterations,         \* history: the number of loop iterations so far
    fanout,             \* which tool runs the RAG fan-out: "search" or "smart_crawl_url"
    max_rag_workers,    \* the argument max_rag_workers: << >> for None, else << n >>
    semaphore,          \* the value of the asyncio.Semaphore of the fan-out
    tasks,              \* the sub-queries handed to asyncio.gather, in order
    reply,              \* what the tool returns, << >> until it does
    urls,               \* _process_multiple_urls: the argument urls
    return_raw_markdown,    \* _process_multiple_urls: the argument return_raw_markdown
    crawl_results,      \* the URLs crawl_batch returned with markdown
    url_results,        \* _process_multiple_urls: the local variable url_results
    successful_urls,    \* _process_multiple_urls: the local variable successful_urls
    failed_urls,        \* _process_multiple_urls: the local variable failed_urls
    errors,             \* _process_multiple_urls: the local variable errors
    raised,             \* history: the step whose exception reached the outer handler
    command,            \* query_knowledge_graph: [cmd, args] of the argument command
    graph,              \* how many records of each kind the graph holds for the command
    returned,           \* history: the number of records read from each Cypher query
    section_chunk,      \* extract_section_info: the argument chunk, a sequence of characters
    requests_per_minute, \* RateLimitMiddleware: self.requests_per_minute
    request_log,        \* RateLimitMiddleware: self.request_log, client IP -> list of timestamps
    now,                \* the last reading of time.time(), in seconds
    decisions,          \* history: [ip, time, forwarded] of each dispatch, in order
    cache,              \* Cache: self.cache, key -> << >> or << [data, timestamp] >>
    ttl_seconds,        \* Cache: self.ttl_seconds
    ttl_override,       \* cached: the argument ttl_seconds, << >> for None
    clock,              \* the reading of time.time(), in seconds
    calls,              \* the calls of the decorated function: [pc, key, executed, joined, result],
                        \* joined the calls that were awaiting the function for the key at a miss
    stored,             \* history: what the last set of each key stored, << >> once invalidated or cleared
    lookup,             \* history: the last get, << [key, time, result, entry, present] >>
    should_exit,        \* GracefulShutdown: self.should_exit
    force_exit,         \* GracefulShutdown: self.force_exit
    exited,             \* sys.exit(1) has been called
    shutdown_tasks,     \* the coroutines that run the callbacks: [by, pc, i, callback], in order of creation
    in_flight,          \* the requests the server is handling
    at_signal,          \* history: << in_flight >> when the first signal arrived, << >> before it
    executed,           \* history: how many times each shutdown callback has been started
    start_urls,         \* crawl_recursive_internal_links: the argument start_urls, as a set
    max_depth,          \* crawl_recursive_internal_links: the argument max_depth
    links,              \* the site: the internal links of each page, with their fragments
    reports,            \* the site: the URL the crawler reports for each requested page
    failing,            \* the site: the pages whose result has success false or no markdown
    visited,            \* crawl_recursive_internal_links: the local variable visited
    current_urls,       \* crawl_recursive_internal_links: the local variable current_urls
    depth,              \* crawl_recursive_internal_links: the loop variable depth, max_depth once the loop is over
    submitted           \* history: urls_to_crawl of each arun_many call, in order

vars == << pc, use_hybrid_search, use_reranking, precheck, match_count,
           vector_results, keyword_results, results, rerank_scores, response,
           search_mode, input_vector, fused_runs, searches, stages, prerank,
           rerank_outcome, requested_match_count,
           text, chunk_size, start, chunks, windows, iterations,
           fanout, max_rag_workers, semaphore, tasks, reply,
           urls, return_raw_markdown, crawl_results, url_results,
           successful_urls, failed_urls, errors, raised,
           command, graph, returned,
           section_chunk,
           requests_per_minute, request_log, now, decisions,
           cache, ttl_seconds, ttl_override, clock, calls, stored, lookup,
           should_exit, force_exit, exited, shutdown_tasks, in_flight, at_signal, executed,
           start_urls, max_depth, links, reports, failing, visited, current_urls, depth, submitted >>

\* the variables of perform_rag_query and of the fusion runs, pc excepted
queryVars == << use_hybrid_search, use_reranking, precheck, match_count,
               vector_results, keyword_results, results, rerank_scores, response,
               search_mode, input_vector, fused_runs, searches, stages, prerank,
               rerank_outcome, requested_match_count >>

\* the variables of smart_chunk_markdown, pc excepted
chunkerVars == << text, chunk_size, start, chunks, windows, iterations >>

\* the variables of the RAG fan-outs, pc and reply excepted
poolVars == << fanout, max_rag_workers, semaphore, tasks >>

\* the variables of _process_multiple_urls, pc and reply excepted
scrapeVars == << urls, return_raw_markdown, crawl_results, url_results,
                successful_urls, failed_urls, errors, raised >>

\* the variables of query_knowledge_graph, pc and reply excepted
graphVars == << command, graph, returned >>

\* the variables of extract_section_info, pc and reply excepted
sectionVars == << section_chunk >>

\* the variables of RateLimitMiddleware
limiterVars == << requests_per_minute, request_log, now, decisions >>

\* the variables of Cache and of cached
cacheVars == << cache, ttl_seconds, ttl_override, clock, calls, stored, lookup >>

\* the variables of GracefulShutdown
shutdownVars == << should_exit, force_exit, exited, shutdown_tasks, in_flight, at_signal, executed >>

\* the variables of crawl_recursive_internal_links, pc and reply excepted
crawlVars == << start_urls, max_depth, links, reports, failing, visited, current_urls, depth, submitted >>

\* what no statement of perform_rag_query or of a fusion run assigns
outsideQuery == << requested_match_count, chunkerVars, poolVars, scrapeVars,
                  graphVars, reply, sectionVars, limiterVars, cacheVars,
                  shutdownVars, crawlVars >>

\* what no statement of smart_chunk_markdown assigns
outsideChunker == << queryVars, poolVars, scrapeVars, graphVars, reply,
                  sectionVars, limiterVars, cacheVars, shutdownVars,
                  crawlVars >>

\* what no statement of a RAG fan-out assigns
outsidePool == << queryVars, chunkerVars, scrapeVars, graphVars, sectionVars,
                  limiterVars, cacheVars, shutdownVars, crawlVars >>

\* what no statement of _process_multiple_urls assigns
outsideScrape == << queryVars, chunkerVars, poolVars, graphVars, sectionVars,
                  limiterVars, cacheVars, shutdownVars, crawlVars >>

\* what no statement of query_knowledge_graph assigns
outsideGraph == << queryVars, chunkerVars, poolVars, scrapeVars, sectionVars,
                  limiterVars, cacheVars, shutdownVars, crawlVars >>

\* what no statement of extract_section_info assigns
outsideSection == << queryVars, chunkerVars, poolVars, scrapeVars, graphVars,
                  limiterVars, cacheVars, shutdownVars, crawlVars >>

\* what no statement of RateLimitMiddleware assigns
outsideLimiter == << queryVars, chunkerVars, poolVars, scrapeVars, graphVars, sectionVars,
                  cacheVars, shutdownVars, crawlVars >>

\* what no statement of Cache or of cached assigns
outsideCache == << queryVars, chunkerVars, poolVars, scrapeVars, graphVars, sectionVars, limiterVars,
                  shutdownVars, crawlVars >>

\* what no statement of GracefulShutdown assigns
outsideShutdown == << queryVars, chunkerVars, poolVars, scrapeVars, graphVars, sectionVars, limiterVars, cacheVars,
                  crawlVars >>

\* what no statement of crawl_recursive_internal_links assigns
outsideCrawl == << queryVars, chunkerVars, poolVars, scrapeVars, graphVars, sectionVars, limiterVars, cacheVars, shutdownVars >>

\* no call of smart_chunk_markdown is under way
ChunkerIdle ==
    /\ text = << >>
    /\ chunk_size = 0
    /\ start = 0
    /\ chunks = << >>
    /\ windows = << >>
    /\ iterations = 0

\* no call of perform_rag_query is under way
QueryIdle ==
    /\ use_hybrid_search = FALSE
    /\ use_reranking = FALSE
    /\ precheck = "ok"
    /\ match_count = 0
    /\ requested_match_count = 0
    /\ vector_results = << >>
    /\ keyword_results = << >>
    /\ results = << >>
    /\ rerank_scores = << >>
    /\ response = "none"
    /\ search_mode = "none"
    /\ input_vector = << >>
    /\ fused_runs = << >>
    /\ searches = << >>
    /\ stages = << >>
    /\ prerank = << >>
    /\ rerank_outcome = "none"

\* no RAG fan-out is under way
PoolIdle ==
    /\ fanout = "none"
    /\ max_rag_workers = << >>
    /\ semaphore = 0
    /\ tasks = << >>

\* no call of _process_multiple_urls is under way
ScrapeIdle ==
    /\ urls = << >>
    /\ return_raw_markdown = FALSE
    /\ crawl_results = {}
    /\ url_results = << >>
    /\ successful_urls = 0
    /\ failed_urls = 0
    /\ errors = << >>
    /\ raised = "none"

\* no call of query_knowledge_graph is under way
GraphIdle ==
    /\ command = << >>
    /\ graph = << >>
    /\ returned = << >>

\* no call of extract_section_info is under way
SectionIdle ==
    /\ section_chunk = << >>

\* no RateLimitMiddleware is installed
LimiterIdle ==
    /\ requests_per_minute = 0
    /\ request_log = << >>
    /\ now = 0
    /\ decisions = << >>

\* no Cache is in use
CacheIdle ==
    /\ cache = << >>
    /\ ttl_seconds = 0
    /\ ttl_override = << >>
    /\ clock = 0
    /\ calls = << >>
    /\ stored = << >>
    /\ lookup = << >>

\* no GracefulShutdown is installed
ShutdownIdle ==
    /\ should_exit = FALSE
    /\ force_exit = FALSE
    /\ exited = FALSE
    /\ shutdown_tasks = << >>
    /\ in_flight = {}
    /\ at_signal = << >>
    /\ executed = << >>

\* no call of crawl_recursive_internal_links is under way
CrawlIdle ==
    /\ start_urls = {}
    /\ max_depth = 0
    /\ links = << >>
    /\ reports = << >>
    /\ failing = {}
    /\ visited = {}
    /\ current_urls = {}
    /\ depth = 0
    /\ submitted = << >>

-----------------------------------------------------------------------------
(* Bounds of the model *)

MaxId == 3          \* ids are 1..MaxId
MaxHits == 2        \* longest hit list a backend returns in the model
MaxRuns == 2        \* fusion runs over the same list objects
MaxRowId == 2       \* ids of the rows the backends of a query return are 1..MaxRowId
MaxRows == 2        \* longest list a backend returns to a query

(* Program constants *)

MaxSimilarity == 1000       \* min(1.0, ...)
BoostNumerator == 12        \* ... * 1.2
BoostDenominator == 10
KeywordSimilarity == 500    \* 'similarity': 0.5
DefaultMatchCount == 5      \* if match_count <= 0: match_count = 5
MaxMatchCount == 50         \* elif match_count > 50: match_count = 50

NoId == -1          \* a hit without the key 'id': r.get('id') is None
NonNumeric == -1    \* a similarity that is no number (None): arithmetic on it raises
NoScore == -1       \* a result without the key 'rerank_score'

Ids == 1..MaxId
Sims == {600, 800, 900}

Min(a, b) == IF a <= b THEN a ELSE b

IdsOf(s) == {s[i].id : i \in DOMAIN s}

\* the sequences over S of length at most n
RECURSIVE SeqsUpTo(_, _)
SeqsUpTo(S, n) ==
    IF n = 0 THEN {<< >>}
    ELSE LET shorter == SeqsUpTo(S, n - 1)
         IN  shorter \cup {Append(s, x) : s \in {t \in shorter : Len(t) = n - 1}, x \in S}

DistinctIds(s) == \A i, j \in DOMAIN s : (i # j /\ s[i].id # NoId) => s[i].id # s[j].id

\* what the vector search returns: rows of one table, each id at most once
WellFormedHits == [id : Ids, similarity : Sims]
HitLists(hits, n) == {s \in SeqsUpTo(hits, n) : DistinctIds(s)}

\* what the keyword search returns: select('id, url, chunk_number, ...') rows
KeywordRows == [id : Ids]
KeywordLists(n) == {s \in SeqsUpTo(KeywordRows, n) : DistinctIds(s)}

-----------------------------------------------------------------------------
(* Result fusion: perform_rag_query lines 1665-1704,                       *)
(* search_code_examples lines 1886-1926                                    *)

\* Python truthiness of r.get('id')
Truthy(id) == id # NoId /\ id # 0

\* vector_ids = {r.get('id') for r in vector_results if r.get('id')}
VectorIds(vec) == {vec[i].id : i \in {j \in DOMAIN vec : Truthy(vec[j].id)}}

\* the boost without the clamp to 1.0
BoostUnclamped(similarity) == (similarity * BoostNumerator) \div BoostDenominator

\* min(1.0, vr.get('similarity', 0) * 1.2)
Boost(similarity) ==
    Min(MaxSimilarity, (similarity * BoostNumerator) \div BoostDenominator)

\* for vr in vector_results: if vr.get('id') == kr['id']: ... break
FirstIndexOf(vec, id) ==
    CHOOSE j \in DOMAIN vec :
        vec[j].id = id /\ \A k \in 1..(j - 1) : vec[k].id # id

\* The accumulator of the three loops: the vector list (its dicts are
\* mutated in place), combined_results, seen_ids, and whether a statement
\* raised (KeyError on kr['id'], TypeError on the multiplication).
FusionStart(vec) ==
    [vector_results |-> vec, combined_results |-> << >>, seen_ids |-> {},
     raised |-> FALSE]

\* first loop: items that appear in both searches
RECURSIVE IntersectionPass(_, _, _, _)
IntersectionPass(st, kw, vector_ids, i) ==
    IF st.raised \/ i > Len(kw) THEN st
    ELSE LET kr == kw[i] IN
         IF kr.id = NoId THEN [st EXCEPT !.raised = TRUE]
         ELSE IF kr.id \in vector_ids /\ kr.id \notin st.seen_ids
         THEN LET j == FirstIndexOf(st.vector_results, kr.id)
                  vr == st.vector_results[j]
              IN  IF vr.similarity = NonNumeric
                  THEN [st EXCEPT !.raised = TRUE]
                  ELSE LET boosted == [vr EXCEPT !.similarity = Boost(vr.similarity)]
                       IN  IntersectionPass(
                               [st EXCEPT !.vector_results[j] = boosted,
                                          !.combined_results = Append(@, boosted),
                                          !.seen_ids = @ \cup {kr.id}],
                               kw, vector_ids, i + 1)
         ELSE IntersectionPass(st, kw, vector_ids, i + 1)

\* the second loop's test without "not in seen_ids"
VectorPassTakesSeen(vr, st, mc) ==
    Truthy(vr.id) /\ Len(st.combined_results) < mc

\* if vr.get('id') and vr['id'] not in seen_ids and len(combined_results) < match_count
VectorPassTakes(vr, st, mc) ==
    Truthy(vr.id) /\ vr.id \notin st.seen_ids /\ Len(st.combined_results) < mc

\* second loop: remaining vector results
RECURSIVE VectorPass(_, _, _)
VectorPass(st, mc, i) ==
    IF st.raised \/ i > Len(st.vector_results) THEN st
    ELSE LET vr == st.vector_results[i] IN
         IF VectorPassTakes(vr, st, mc)
         THEN VectorPass([st EXCEPT !.combined_results = Append(@, vr),
                                    !.seen_ids = @ \cup {vr.id}], mc, i + 1)
         ELSE VectorPass(st, mc, i + 1)

\* if kr['id'] not in seen_ids and len(combined_results) < match_count
KeywordPassTakes(kr, st, mc) ==
    kr.id \notin st.seen_ids /\ Len(st.combined_results) < mc

\* the dict built for a keyword-only match
KeywordOnlyHit(kr) == [id |-> kr.id, similarity |-> KeywordSimilarity]

\* third loop: pure keyword matches
RECURSIVE KeywordPass(_, _, _, _)
KeywordPass(st, kw, mc, i) ==
    IF st.raised \/ i > Len(kw) THEN st
    ELSE LET kr == kw[i] IN
         IF kr.id = NoId THEN [st EXCEPT !.raised = TRUE]
         ELSE IF KeywordPassTakes(kr, st, mc)
         THEN KeywordPass([st EXCEPT !.combined_results = Append(@, KeywordOnlyHit(kr)),
                                     !.seen_ids = @ \cup {kr.id}], kw, mc, i + 1)
         ELSE KeywordPass(st, kw, mc, i + 1)

\* the final slice left out
TruncateNothing(combined, mc) == combined

\* combined_results[:match_count], for match_count >= 0
Truncate(combined, mc) == SubSeq(combined, 1, Min(mc, Len(combined)))

\* the loop over the remaining vector results run before the intersection loop
CombineVectorFirst(vec, kw, mc) ==
    KeywordPass(
        IntersectionPass(VectorPass(FusionStart(vec), mc, 1), kw, VectorIds(vec), 1),
        kw, mc, 1)

\* the three loops in program order
CombineResults(vec, kw, mc) ==
    KeywordPass(
        VectorPass(IntersectionPass(FusionStart(vec), kw, VectorIds(vec), 1), mc, 1),
        kw, mc, 1)

\* The fusion block of search_code_examples: the list it assigns to results,
\* the vector list as the block leaves it, and whether the block raised.
FuseCodeExamples(vec, kw, mc) ==
    LET st == CombineResults(vec, kw, mc)
    IN  [raised |-> st.raised,
         results |-> IF st.raised THEN << >> ELSE Truncate(st.combined_results, mc),
         vector_results |-> st.vector_results]

\* the guard of the block written "if vector_results and keyword_results"
FuseDocumentsBothNeeded(vec, kw, mc) ==
    IF vec # << >> /\ kw # << >>
    THEN FuseCodeExamples(vec, kw, mc)
    ELSE [raised |-> FALSE, results |-> << >>, vector_results |-> vec]

\* The fusion block of perform_rag_query: the same loops under
\* "if vector_results or keyword_results", else results = [].
FuseDocuments(vec, kw, mc) ==
    IF vec # << >> \/ kw # << >>
    THEN FuseCodeExamples(vec, kw, mc)
    ELSE [raised |-> FALSE, results |-> << >>, vector_results |-> vec]

-----------------------------------------------------------------------------
(* Part 1: fusion runs over two hit lists                                  *)

MatchCounts == 0..(MaxHits + 1)

InitFusion ==
    /\ pc = "fusion"
    /\ vector_results \in HitLists(WellFormedHits, MaxHits)
    /\ keyword_results \in KeywordLists(MaxHits)
    /\ match_count \in MatchCounts
    /\ requested_match_count = match_count
    /\ input_vector = vector_results
    /\ fused_runs = << >>
    /\ use_hybrid_search = TRUE
    /\ use_reranking = FALSE
    /\ precheck = "ok"
    /\ results = << >>
    /\ rerank_scores = << >>
    /\ response = "none"
    /\ search_mode = "none"
    /\ searches = << >>
    /\ stages = << >>
    /\ prerank = << >>
    /\ rerank_outcome = "none"
    /\ ChunkerIdle
    /\ PoolIdle
    /\ ScrapeIdle
    /\ GraphIdle
    /\ SectionIdle
    /\ LimiterIdle
    /\ CacheIdle
    /\ ShutdownIdle
    /\ CrawlIdle
    /\ reply = << >>

ragOnlyVars == << use_hybrid_search, use_reranking, precheck, rerank_scores,
                  response, search_mode, searches, stages, prerank, rerank_outcome >>

\* one run of a fusion block over the list objects as they are now
RunFusion(fused) ==
    /\ pc = "fusion"
    /\ Len(fused_runs) < MaxRuns
    /\ ~fused.raised
    /\ results' = fused.results
    /\ vector_results' = fused.vector_results
    /\ fused_runs' = Append(fused_runs, fused.results)
    /\ UNCHANGED << pc, keyword_results, match_count, input_vector >>
    /\ UNCHANGED ragOnlyVars
    /\ UNCHANGED outsideQuery

RunFuseDocuments == RunFusion(FuseDocuments(vector_results, keyword_results, match_count))

RunFuseCodeExamples == RunFusion(FuseCodeExamples(vector_results, keyword_results, match_count))

NextFusion == RunFuseDocuments \/ RunFuseCodeExamples

SpecFusion == InitFusion /\ [][NextFusion]_vars

-----------------------------------------------------------------------------
(* Part 2: perform_rag_query, lines 1536-1811                              *)

RowIds == 1..MaxRowId
RowSims == {600}
Scores == {1, 2}
RequestedCounts == {-1, 0, 1, 2, 50, 51}
Prechecks == {"ok", "not_initialized", "empty_query", "source_too_long", "no_client"}
Outcomes == {"returned", "timeout", "raised"}

\* rows of search_documents: the Supabase function returns id and a float
\* similarity; the PostgreSQL adapter selects no id column, and a row without
\* embedding has similarity NULL
VectorRows == [id : RowIds \cup {NoId}, similarity : RowSims \cup {NonNumeric}]
VectorSearchRows(limit) == HitLists(VectorRows, Min(MaxRows, limit))

\* rows of the crawled_pages query, .limit(match_count * 2)
KeywordSearchRows(limit) ==
    {s \in SeqsUpTo([id : RowIds], Min(MaxRows, limit)) : DistinctIds(s)}

\* the clamp without its elif branch
ClampBelowOnly(mc) == IF mc <= 0 THEN DefaultMatchCount ELSE mc

\* if match_count <= 0: 5, elif match_count > 50: 50
ClampMatchCount(mc) ==
    IF mc <= 0 THEN DefaultMatchCount
    ELSE IF mc > MaxMatchCount THEN MaxMatchCount
    ELSE mc

Init ==
    /\ pc = "start"
    /\ use_hybrid_search \in BOOLEAN
    /\ use_reranking \in BOOLEAN
    /\ precheck \in Prechecks
    /\ match_count \in RequestedCounts
    /\ requested_match_count = match_count
    /\ vector_results = << >>
    /\ keyword_results = << >>
    /\ results = << >>
    /\ rerank_scores = << >>
    /\ response = "none"
    /\ search_mode = "none"
    /\ input_vector = << >>
    /\ fused_runs = << >>
    /\ searches = << >>
    /\ stages = << >>
    /\ prerank = << >>
    /\ rerank_outcome = "none"
    /\ ChunkerIdle
    /\ PoolIdle
    /\ ScrapeIdle
    /\ GraphIdle
    /\ SectionIdle
    /\ LimiterIdle
    /\ CacheIdle
    /\ ShutdownIdle
    /\ CrawlIdle
    /\ reply = << >>

\* lines 1552-1608: the guards before the searches, the clamp, the mode
Validate ==
    /\ pc = "start"
    /\ IF precheck = "ok"
       THEN /\ match_count' = ClampMatchCount(match_count)
            /\ pc' = IF use_hybrid_search THEN "hybrid_vector" ELSE "vector_only"
            /\ UNCHANGED << response, stages >>
       ELSE /\ response' = "failed"
            /\ pc' = "done"
            /\ stages' = Append(stages, "Failed")
            /\ UNCHANGED match_count
    /\ UNCHANGED << use_hybrid_search, use_reranking, precheck, vector_results,
                    keyword_results, results, rerank_scores, search_mode,
                    input_vector, fused_runs, searches, prerank, rerank_outcome >>
    /\ UNCHANGED outsideQuery

\* what the except clauses of a hybrid search leave in the list
RowsOrEmpty(outcome, rows) == IF outcome = "returned" THEN rows ELSE << >>

\* lines 1613-1634: the vector search of hybrid mode, 15 s budget
HybridVectorSearch ==
    /\ pc = "hybrid_vector"
    /\ \E outcome \in Outcomes, rows \in VectorSearchRows(2 * match_count) :
         /\ outcome # "returned" => rows = << >>
         /\ vector_results' = RowsOrEmpty(outcome, rows)
         /\ input_vector' = RowsOrEmpty(outcome, rows)
         /\ searches' = Append(searches, [backend |-> "vector", mode |-> "hybrid",
                                          outcome |-> outcome,
                                          limit |-> 2 * match_count])
    /\ stages' = Append(stages, "VectorSearching")
    /\ pc' = "hybrid_keyword"
    /\ UNCHANGED << use_hybrid_search, use_reranking, precheck, match_count,
                    keyword_results, results, rerank_scores, response,
                    search_mode, fused_runs, prerank, rerank_outcome >>
    /\ UNCHANGED outsideQuery

\* lines 1636-1662: the keyword search of hybrid mode, 10 s budget
HybridKeywordSearch ==
    /\ pc = "hybrid_keyword"
    /\ \E outcome \in Outcomes, rows \in KeywordSearchRows(2 * match_count) :
         /\ outcome # "returned" => rows = << >>
         /\ keyword_results' = RowsOrEmpty(outcome, rows)
         /\ searches' = Append(searches, [backend |-> "keyword", mode |-> "hybrid",
                                          outcome |-> outcome,
                                          limit |-> 2 * match_count])
    /\ stages' = Append(stages, "KeywordSearching")
    /\ pc' = "fusing"
    /\ UNCHANGED << use_hybrid_search, use_reranking, precheck, match_count,
                    vector_results, results, rerank_scores, response,
                    search_mode, input_vector, fused_runs, prerank,
                    rerank_outcome >>
    /\ UNCHANGED outsideQuery

\* lines 1664-1712: the fusion block; an exception in it is caught at line
\* 1710, which switches the query to the vector-only search. Nothing reads
\* the two hybrid lists after that: the model drops them there.
Fuse ==
    /\ pc = "fusing"
    /\ LET fused == FuseDocuments(vector_results, keyword_results, match_count) IN
         IF fused.raised
         THEN /\ use_hybrid_search' = FALSE
              /\ pc' = "vector_only"
              /\ vector_results' = << >>
              /\ keyword_results' = << >>
              /\ input_vector' = << >>
              /\ UNCHANGED << results, fused_runs >>
         ELSE /\ results' = fused.results
              /\ fused_runs' = Append(fused_runs, fused.results)
              /\ vector_results' = fused.vector_results
              /\ pc' = "reranking"
              /\ UNCHANGED << use_hybrid_search, keyword_results, input_vector >>
    /\ stages' = Append(stages, "Fusing")
    /\ UNCHANGED << use_reranking, precheck, match_count, rerank_scores,
                    response, search_mode, searches, prerank, rerank_outcome >>
    /\ UNCHANGED outsideQuery

\* lines 1714-1744: the vector-only search, 20 s budget; a timeout or an
\* exception returns the error response
VectorOnlySearch ==
    /\ pc = "vector_only"
    /\ \E outcome \in Outcomes, rows \in VectorSearchRows(match_count) :
         /\ outcome # "returned" => rows = << >>
         /\ searches' = Append(searches, [backend |-> "vector", mode |-> "vector",
                                          outcome |-> outcome,
                                          limit |-> match_count])
         /\ IF outcome = "returned"
            THEN /\ results' = rows
                 /\ pc' = "reranking"
                 /\ stages' = Append(stages, "VectorSearching")
                 /\ UNCHANGED response
            ELSE /\ response' = "failed"
                 /\ pc' = "done"
                 /\ stages' = stages \o << "VectorSearching", "Failed" >>
                 /\ UNCHANGED results
    /\ UNCHANGED << use_hybrid_search, use_reranking, precheck, match_count,
                    vector_results, keyword_results, rerank_scores,
                    search_mode, input_vector, fused_runs, prerank,
                    rerank_outcome >>
    /\ UNCHANGED outsideQuery

\* sorted(results, key=rerank_score, reverse=True): stable, descending.
\* Entries are records [hit, score].
RECURSIVE InsertByScore(_, _)
InsertByScore(sorted, x) ==
    IF sorted = << >> THEN << x >>
    ELSE IF Head(sorted).score < x.score THEN << x >> \o sorted
    ELSE << Head(sorted) >> \o InsertByScore(Tail(sorted), x)

RECURSIVE SortByScore(_, _)
SortByScore(entries, i) ==
    IF i = 0 THEN << >>
    ELSE InsertByScore(SortByScore(entries, i - 1), entries[i])

\* rerank_results, lines 283-319, on results with the scores of model.predict
RerankResults(res, scores) ==
    LET entries == [i \in DOMAIN res |-> [hit |-> res[i], score |-> scores[i]]]
        sorted == SortByScore(entries, Len(res))
    IN  [results |-> [i \in DOMAIN res |-> sorted[i].hit],
         rerank_scores |-> [i \in DOMAIN res |-> sorted[i].score]]

\* the reranking step assigns to results even when the reranker did not return
ResultsAfterRerankAlways(outcome, res, scores) == RerankResults(res, scores).results

\* lines 1749-1768: results = reranked_results is reached only when the
\* reranker returned within 10 s; rerank_results itself returns its argument
\* when the model raises
ResultsAfterRerank(outcome, res, scores) ==
    IF outcome = "reranked" THEN RerankResults(res, scores).results ELSE res

NoScores(res) == [i \in DOMAIN res |-> NoScore]

\* lines 1746-1768: the optional reranking step, 10 s budget
Rerank ==
    /\ pc = "reranking"
    /\ prerank' = results
    /\ IF use_reranking /\ results # << >>
       THEN /\ \E outcome \in {"reranked", "timeout", "raised"},
                  scores \in [DOMAIN results -> Scores] :
                 /\ rerank_outcome' = outcome
                 /\ results' = ResultsAfterRerank(outcome, results, scores)
                 /\ rerank_scores' = IF outcome = "reranked"
                                     THEN RerankResults(results, scores).rerank_scores
                                     ELSE NoScores(results)
            /\ stages' = Append(stages, "Reranking")
       ELSE /\ rerank_outcome' = "skipped"
            /\ rerank_scores' = NoScores(results)
            /\ UNCHANGED << results, stages >>
    /\ pc' = "formatting"
    /\ UNCHANGED << use_hybrid_search, use_reranking, precheck, match_count,
                    vector_results, keyword_results, response, search_mode,
                    input_vector, fused_runs, searches >>
    /\ UNCHANGED outsideQuery

\* rerank_results, lines 310-311, in the executor thread that wait_for left
\* running at the timeout: the thread writes result["rerank_score"] into the
\* dicts of results while lines 1771-1785 read them. Each write lands before
\* the formatting loop reads that dict, or too late to be seen.
RerankerThreadWrites ==
    /\ pc = "formatting"
    /\ rerank_outcome = "timeout"
    /\ \E i \in DOMAIN results, score \in Scores :
        /\ rerank_scores[i] = NoScore
        /\ rerank_scores' = [rerank_scores EXCEPT ![i] = score]
    /\ UNCHANGED << pc, use_hybrid_search, use_reranking, precheck, match_count,
                    vector_results, keyword_results, results, response, search_mode,
                    input_vector, fused_runs, searches, stages, prerank,
                    rerank_outcome >>
    /\ UNCHANGED outsideQuery

\* lines 1770-1800: the success response
Format ==
    /\ pc = "formatting"
    /\ response' = "success"
    /\ search_mode' = IF use_hybrid_search THEN "hybrid" ELSE "vector"
    /\ stages' = Append(stages, "Done")
    /\ pc' = "done"
    /\ UNCHANGED << use_hybrid_search, use_reranking, precheck, match_count,
                    vector_results, keyword_results, results, rerank_scores,
                    input_vector, fused_runs, searches, prerank, rerank_outcome >>
    /\ UNCHANGED outsideQuery

Next ==
    \/ Validate
    \/ HybridVectorSearch
    \/ HybridKeywordSearch
    \/ Fuse
    \/ VectorOnlySearch
    \/ Rerank
    \/ RerankerThreadWrites
    \/ Format

Spec == Init /\ [][Next]_vars

-----------------------------------------------------------------------------
(* Properties of the fusion runs                                           *)

NoDuplicateIds(s) == \A i, j \in DOMAIN s : i # j => s[i].id # s[j].id

BothIds == IdsOf(input_vector) \cap IdsOf(keyword_results)

\* the hit of the vector list as the search returned it, by id
InputHit(id) == input_vector[FirstIndexOf(input_vector, id)]

RECURSIVE MapSeq(_, _)
MapSeq(F(_), s) == IF s = << >> THEN << >> ELSE << F(Head(s)) >> \o MapSeq(F, Tail(s))

InVector(kr) == kr.id \in IdsOf(input_vector)
NotInVector(kr) == kr.id \notin IdsOf(input_vector)
NotInKeyword(vr) == vr.id \notin IdsOf(keyword_results)
BoostedInputHit(kr) == [id |-> kr.id, similarity |-> Boost(InputHit(kr.id).similarity)]
DefaultHit(kr) == [id |-> kr.id, similarity |-> 500]

ThreePasses ==
    MapSeq(BoostedInputHit, SelectSeq(keyword_results, InVector))
        \o SelectSeq(input_vector, NotInKeyword)
        \o MapSeq(DefaultHit, SelectSeq(keyword_results, NotInVector))

\* C3: the first fused list is the first match_count elements of: the keyword
\* hits found by the vector search too (keyword order, the vector hit's
\* record), the other vector hits (vector order), the other keyword hits
\* (keyword order).
FusedIsThreePassPrefix ==
    Len(fused_runs) >= 1 =>
        fused_runs[1] = SubSeq(ThreePasses, 1, Min(match_count, Len(ThreePasses)))

\* C3 witness: a run to which all three passes contribute one hit each.
ThreePassWitness ==
    /\ Len(fused_runs) >= 1
    /\ Len(fused_runs[1]) = 3
    /\ fused_runs[1][1].id \in BothIds
    /\ fused_runs[1][2].id \in IdsOf(input_vector) \ IdsOf(keyword_results)
    /\ fused_runs[1][3].id \in IdsOf(keyword_results) \ IdsOf(input_vector)

ClampedBoost(s) == IF 12 * s >= 10 * 1000 THEN 1000 ELSE (12 * s) \div 10

ScenarioInput ==
    /\ input_vector = << [id |-> 1, similarity |-> 800], [id |-> 2, similarity |-> 600] >>
    /\ keyword_results = << [id |-> 1], [id |-> 3] >>
    /\ match_count = 3

\* C4: in the first fused list a hit of both lists carries min(1.0, 1.2 x its
\* vector similarity), a vector-only hit its vector similarity, a keyword-only
\* hit 0.5; the scenario of the claim yields ids 1, 2, 3 with 0.96, 0.6, 0.5.
FusedSimilarities ==
    Len(fused_runs) >= 1 =>
        /\ \A i \in DOMAIN fused_runs[1] :
             LET h == fused_runs[1][i] IN
             IF h.id \in BothIds
             THEN h.similarity = ClampedBoost(InputHit(h.id).similarity)
             ELSE IF h.id \in IdsOf(input_vector)
             THEN h.similarity = InputHit(h.id).similarity
             ELSE h.similarity = 500
        /\ ScenarioInput =>
             fused_runs[1] = << [id |-> 1, similarity |-> 960],
                                [id |-> 2, similarity |-> 600],
                                [id |-> 3, similarity |-> 500] >>

\* C4 witness: the scenario of the claim has been fused.
FusedSimilaritiesWitness == ScenarioInput /\ Len(fused_runs) >= 1

\* C4 witness of the clamp: a shared hit of similarity 0.9 is returned with 1.0.
FusedClampWitness ==
    /\ Len(fused_runs) >= 1
    /\ \E i \in DOMAIN fused_runs[1] :
         /\ fused_runs[1][i].id \in BothIds
         /\ InputHit(fused_runs[1][i].id).similarity = 900
         /\ fused_runs[1][i].similarity = 1000

\* C5: a second fusion run over the same two lists and the same match_count
\* returns a list equal to the first run's, similarities included.
RerunReturnsSameList ==
    Len(fused_runs) >= 2 => fused_runs[2] = fused_runs[1]

-----------------------------------------------------------------------------
(* Properties of perform_rag_query                                         *)

FirstN(s, n) == SubSeq(s, 1, Min(n, Len(s)))

HybridRequested == Len(searches) >= 2 /\ searches[1].mode = "hybrid"
VectorFailed == searches[1].outcome # "returned"
KeywordFailed == searches[2].outcome # "returned"

HasId(vr) == vr.id # NoId
IsWellFormed(vr) == vr.id # NoId /\ vr.similarity # NonNumeric

\* C6: in hybrid mode, when exactly one of the two searches times out or
\* raises, the query returns success in hybrid mode, runs no further search,
\* and its pre-rerank results are the other search's hits fused alone.
SingleSearchFailureDegrades ==
    (pc = "done" /\ HybridRequested /\ VectorFailed # KeywordFailed) =>
        /\ response = "success"
        /\ search_mode = "hybrid"
        /\ Len(searches) = 2
        /\ prerank = IF VectorFailed
                     THEN FirstN(MapSeq(DefaultHit, keyword_results), match_count)
                     ELSE FirstN(SelectSeq(input_vector, HasId), match_count)

\* C6 witness: the vector search timed out and the query returned the
\* keyword hits.
SingleSearchFailureWitness ==
    /\ pc = "done"
    /\ HybridRequested
    /\ searches[1].outcome = "timeout"
    /\ searches[2].outcome = "returned"
    /\ Len(prerank) >= 1
    /\ response = "success"

\* C7: a query whose every search timed out or raised ends failed (the "if"
\* half of: a query ends failed exactly when every search it ran failed; in
\* hybrid mode when both the vector and the keyword search fail).
FailedWhenAllSearchesFailed ==
    (pc = "done" /\ searches # << >>
        /\ \A i \in DOMAIN searches : searches[i].outcome # "returned") =>
        response = "failed"

\* C8: when both searches of a hybrid query return, fusion is not aborted,
\* and the query returns the hybrid fusion of the hits that have an id and a
\* numeric similarity, the other hits being skipped.
MalformedHitsSkipped ==
    (HybridRequested /\ ~VectorFailed /\ ~KeywordFailed) =>
        /\ pc \in {"vector_only", "reranking", "formatting", "done"} => use_hybrid_search
        /\ pc = "done" =>
             /\ response = "success"
             /\ search_mode = "hybrid"
             /\ prerank = FuseDocuments(SelectSeq(input_vector, IsWellFormed),
                                        keyword_results, match_count).results

\* C9: when the reranker times out or raises, the query returns success with
\* its results in the order they had before the reranking step.
RerankFailureKeepsOrder ==
    (pc = "done" /\ rerank_outcome \in {"timeout", "raised"}) =>
        /\ response = "success"
        /\ results = prerank

\* C9 witness: the reranker timed out on two results, returned in their
\* pre-rerank order.
RerankFailureWitness ==
    /\ pc = "done"
    /\ rerank_outcome = "timeout"
    /\ Len(prerank) >= 2
    /\ results = prerank
    /\ response = "success"

StageRank(stage) ==
    CASE stage = "VectorSearching" -> 1
      [] stage = "KeywordSearching" -> 2
      [] stage = "Fusing" -> 3
      [] stage = "Reranking" -> 4
      [] OTHER -> 5

\* C10: the stages of a query are entered in the order vector search,
\* keyword search, fusion, reranking, Done or Failed, none of them twice and
\* no search after fusion; a query that has returned ended in Done or Failed.
StagesInOrder ==
    /\ \A i, j \in DOMAIN stages :
           i < j => StageRank(stages[i]) < StageRank(stages[j])
    /\ pc = "done" => stages[Len(stages)] \in {"Done", "Failed"}

-----------------------------------------------------------------------------
(* Properties of the match_count clamp                                     *)

SearchLimitOf(search, mc) == IF search.mode = "hybrid" THEN 2 * mc ELSE mc

\* C11: no request is rejected because of its match_count: a request that
\* passes the other guards reaches a search whatever match_count it carries.
\* From then on the effective match_count lies in 1..50, equals the requested
\* value when that already lies in 1..50, is the value every search is
\* called with (doubled in hybrid mode), and bounds the results returned.
MatchCountClamped ==
    (pc # "start" /\ precheck = "ok") =>
        /\ match_count \in 1..50
        /\ requested_match_count \in 1..50 => match_count = requested_match_count
        /\ \A i \in DOMAIN searches : searches[i].limit = SearchLimitOf(searches[i], match_count)
        /\ pc = "done" => Len(searches) >= 1
        /\ response = "failed" => searches[Len(searches)].outcome # "returned"
        /\ Len(results) <= match_count

\* a request for 51 results and one for none, both answered
MatchCountClampedWitness ==
    /\ response = "success"
    /\ requested_match_count \in {-1, 51}
    /\ Len(searches) >= 1
    /\ Len(results) >= 1

-----------------------------------------------------------------------------
(* Part 3: smart_chunk_markdown, lines 367-410                             *)
(* A text is a sequence of characters, each a string; positions are        *)
(* 0-based as in the source.                                               *)

MaxTextLen == 6     \* longest text
MaxChunkSize == 5   \* largest chunk_size, the 150 of the scenario text apart
MaxStuckLen == 2    \* longest text chunked with a chunk_size below 1

Backtick == "backtick"          \* the character ` , which a string here cannot hold

\* A backtick or a period that begins no marker is a character like any
\* other, so the two stand for the letters as well.
Characters == {" ", "\n", ".", Backtick}
Whitespace == {" ", "\n"}       \* what str.strip() removes, among Characters
Fence == << Backtick, Backtick, Backtick >>
ParagraphBreak == << "\n", "\n" >>
SentenceBreak == << ".", " " >>

Texts == UNION {[1..n -> Characters] : n \in 0..MaxTextLen}
ChunkSizes == (-1)..MaxChunkSize

\* 100 'A', a blank line, 100 'B'
ScenarioText ==
    [i \in 1..202 |-> IF i <= 100 THEN "A" ELSE IF i <= 102 THEN "\n" ELSE "B"]

\* at most one iteration per character when start advances; one more shows
\* a loop that does not
MaxIterations == MaxTextLen + 1

Max(a, b) == IF a >= b THEN a ELSE b

\* a slice bound as Python reads it: negative counts from the end, all clipped
SliceIndex(i, n) == IF i < 0 THEN Max(0, n + i) ELSE Min(i, n)

\* s[a:b]
Slice(s, a, b) ==
    LET lo == SliceIndex(a, Len(s))
        hi == SliceIndex(b, Len(s))
    IN  IF lo < hi THEN SubSeq(s, lo + 1, hi) ELSE << >>

\* s[a:]
SliceFrom(s, a) == SubSeq(s, SliceIndex(a, Len(s)) + 1, Len(s))

\* s.rfind(sub): the highest index where sub starts, -1 when there is none
RFind(s, sub) ==
    LET at == {i \in 0..(Len(s) - Len(sub)) : SubSeq(s, i + 1, i + Len(sub)) = sub}
    IN  IF at = {} THEN -1 ELSE CHOOSE i \in at : \A j \in at : j <= i

RECURSIVE LStrip(_)
LStrip(s) == IF s # << >> /\ Head(s) \in Whitespace THEN LStrip(Tail(s)) ELSE s

RECURSIVE RStrip(_)
RStrip(s) ==
    IF s # << >> /\ s[Len(s)] \in Whitespace THEN RStrip(SubSeq(s, 1, Len(s) - 1)) ELSE s

\* s.strip()
Strip(s) == RStrip(LStrip(s))

\* pos > chunk_size * 0.3
PastThreshold(pos, size) == 10 * pos > 3 * size

\* a hard cut one character late
HardCutLate(st, size) == st + size + 1

\* end = start + chunk_size
HardCut(st, size) == st + size

\* the fence rule cutting after the marker
FenceEndAfter(st, code_block) == st + code_block + 3

\* end = start + code_block
FenceEnd(st, code_block) == st + code_block

\* end = start + last_break
ParagraphEnd(st, last_break) == st + last_break

\* end = start + last_period + 1
SentenceEnd(st, last_period) == st + last_period + 1

\* lines 375-400: where the window that begins at st ends
WindowEnd(txt, st, size) ==
    LET chunk == Slice(txt, st, HardCut(st, size))
        code_block == RFind(chunk, Fence)
        last_break == RFind(chunk, ParagraphBreak)
        last_period == RFind(chunk, SentenceBreak)
    IN  IF code_block # -1 /\ PastThreshold(code_block, size)
        THEN FenceEnd(st, code_block)
        ELSE IF last_break # -1
        THEN IF PastThreshold(last_break, size)
             THEN ParagraphEnd(st, last_break) ELSE HardCut(st, size)
        ELSE IF last_period # -1
        THEN IF PastThreshold(last_period, size)
             THEN SentenceEnd(st, last_period) ELSE HardCut(st, size)
        ELSE HardCut(st, size)

\* the next window beginning one character after the end of this one
NextStartSkip(end) == end + 1

\* start = end
NextStart(end) == end

InitChunker ==
    /\ pc = "chunking"
    /\ \/ /\ text \in Texts
          /\ chunk_size \in ChunkSizes
          /\ (chunk_size < 1) => (Len(text) <= MaxStuckLen)
       \/ /\ text = ScenarioText
          /\ chunk_size = 150
    /\ start = 0
    /\ chunks = << >>
    /\ windows = << >>
    /\ iterations = 0
    /\ QueryIdle
    /\ PoolIdle
    /\ ScrapeIdle
    /\ GraphIdle
    /\ SectionIdle
    /\ LimiterIdle
    /\ CacheIdle
    /\ ShutdownIdle
    /\ CrawlIdle
    /\ reply = << >>

\* lines 378-380: the rest of the text fits the window
TakeRest ==
    /\ pc = "chunking"
    /\ iterations < MaxIterations
    /\ start < Len(text)
    /\ HardCut(start, chunk_size) >= Len(text)
    /\ chunks' = Append(chunks, Strip(SliceFrom(text, start)))
    /\ windows' = Append(windows, [start |-> start, end |-> Len(text), final |-> TRUE])
    /\ iterations' = iterations + 1
    /\ pc' = "returned"
    /\ UNCHANGED << text, chunk_size, start >>
    /\ UNCHANGED outsideChunker

\* lines 382-408: a window with text left behind it
TakeWindow ==
    /\ pc = "chunking"
    /\ iterations < MaxIterations
    /\ start < Len(text)
    /\ HardCut(start, chunk_size) < Len(text)
    /\ LET end == WindowEnd(text, start, chunk_size)
           chunk == Strip(Slice(text, start, end))
       IN  /\ chunks' = IF chunk # << >> THEN Append(chunks, chunk) ELSE chunks
           /\ windows' = Append(windows, [start |-> start, end |-> end, final |-> FALSE])
           /\ start' = NextStart(end)
    /\ iterations' = iterations + 1
    /\ UNCHANGED << pc, text, chunk_size >>
    /\ UNCHANGED outsideChunker

\* lines 373 and 410: the loop condition fails
ReturnChunks ==
    /\ pc = "chunking"
    /\ start >= Len(text)
    /\ pc' = "returned"
    /\ UNCHANGED chunkerVars
    /\ UNCHANGED outsideChunker

NextChunker == TakeRest \/ TakeWindow \/ ReturnChunks

SpecChunker == InitChunker /\ [][NextChunker]_vars

-----------------------------------------------------------------------------
(* Properties of smart_chunk_markdown                                      *)

IsBlank(c) == c = " " \/ c = "\n"

\* s without its leading and trailing blanks
Trimmed(s) ==
    LET inked == {i \in DOMAIN s : ~IsBlank(s[i])}
    IN  IF inked = {} THEN << >>
        ELSE SubSeq(s, CHOOSE i \in inked : \A j \in inked : i <= j,
                       CHOOSE i \in inked : \A j \in inked : j <= i)

\* the characters of window i, and the window as it is cut
WindowText(i) == SubSeq(text, windows[i].start + 1, windows[i].end)
TrimmedWindows == [i \in DOMAIN windows |-> Trimmed(WindowText(i))]

IsInked(s) == s # << >>
Inked(c) == ~IsBlank(c)

RECURSIVE Concat(_)
Concat(ss) == IF ss = << >> THEN << >> ELSE Head(ss) \o Concat(Tail(ss))

\* the windows are consecutive, none is empty, and they cover text
WindowsCoverText ==
    /\ (text = << >>) => (windows = << >>)
    /\ (text # << >>) => /\ windows # << >>
                         /\ windows[1].start = 0
                         /\ windows[Len(windows)].end = Len(text)
    /\ \A i \in DOMAIN windows : windows[i].start < windows[i].end
    /\ \A i \in DOMAIN windows : i < Len(windows) => windows[i + 1].start = windows[i].end

\* C12: for chunk_size >= 1 the text is cut into consecutive windows that
\* do not overlap and cover it, and the chunks returned are, in order, the
\* windows without their leading and trailing whitespace (a window of
\* whitespace only gives no text): the characters of the chunks that are no
\* whitespace are those of the text, each once and in order.
ChunksAreTrimmedWindows ==
    (pc = "returned" /\ chunk_size >= 1) =>
        /\ WindowsCoverText
        /\ SelectSeq(chunks, IsInked) = SelectSeq(TrimmedWindows, IsInked)
        /\ SelectSeq(Concat(chunks), Inked) = SelectSeq(text, Inked)

\* a text cut into three windows, one of which loses whitespace at both ends
ChunksAreTrimmedWindowsWitness ==
    /\ pc = "returned"
    /\ chunk_size >= 2
    /\ Len(windows) = 3
    /\ Len(chunks) = 3
    /\ \E i \in DOMAIN windows :
         /\ IsBlank(Head(WindowText(i)))
         /\ IsBlank(WindowText(i)[Len(WindowText(i))])
         /\ TrimmedWindows[i] # << >>

\* C13: for chunk_size >= 1 every chunk returned is non-empty and neither
\* begins nor ends with whitespace, whatever the text.
ChunksNonEmptyAndTrimmed ==
    (chunk_size >= 1) =>
        \A i \in DOMAIN chunks :
            /\ chunks[i] # << >>
            /\ ~IsBlank(Head(chunks[i]))
            /\ ~IsBlank(chunks[i][Len(chunks[i])])

\* the 0-based positions of window at which marker begins
Occurrences(window, marker) ==
    {p \in 0..(Len(window) - Len(marker)) :
        \A k \in 1..Len(marker) : window[p + k] = marker[k]}

IsLast(positions, p) == p \in positions /\ \A q \in positions : q <= p

\* p lies past 30% of chunk_size
Past30(p) == 10 * p > 3 * chunk_size

\* the chunk_size characters a window that is not the last one looks at
Looked(i) == SubSeq(text, windows[i].start + 1, windows[i].start + chunk_size)

Fences(i) == Occurrences(Looked(i), << Backtick, Backtick, Backtick >>)
Breaks(i) == Occurrences(Looked(i), << "\n", "\n" >>)
Periods(i) == Occurrences(Looked(i), << ".", " " >>)

LateFence(i) == \E p \in Fences(i) : IsLast(Fences(i), p) /\ Past30(p)
LateBreak(i) == \E p \in Breaks(i) : IsLast(Breaks(i), p) /\ Past30(p)
LatePeriod(i) == \E p \in Periods(i) : IsLast(Periods(i), p) /\ Past30(p)

NonFinal == {i \in DOMAIN windows : ~windows[i].final}

Repeat(c, n) == [i \in 1..n |-> c]

\* C14: a window that is not the last one ends just before its last ```
\* when that marker lies past 30% of chunk_size; otherwise it ends at its
\* last blank line when that lies past 30%. 100 'A', a blank line and 100
\* 'B' with chunk_size 150 give the chunks of 100 'A' and of 100 'B'.
FenceThenParagraphCut ==
    /\ (chunk_size >= 1) =>
          \A i \in NonFinal :
              /\ \A p \in Fences(i) :
                    (IsLast(Fences(i), p) /\ Past30(p)) =>
                        windows[i].end = windows[i].start + p
              /\ ~LateFence(i) =>
                    \A p \in Breaks(i) :
                        (IsLast(Breaks(i), p) /\ Past30(p)) =>
                            windows[i].end = windows[i].start + p
    /\ (text = ScenarioText /\ pc = "returned") =>
          chunks = << Repeat("A", 100), Repeat("B", 100) >>

\* a window cut before its fence, which then opens the second chunk
FenceCutWitness ==
    /\ pc = "returned"
    /\ chunk_size >= 1
    /\ Len(chunks) = 2
    /\ 1 \in NonFinal
    /\ LateFence(1)
    /\ Len(chunks[1]) >= 1
    /\ Len(chunks[2]) >= 4
    /\ SubSeq(chunks[2], 1, 3) = << Backtick, Backtick, Backtick >>

\* C15: a window that is not the last one and has neither a ``` nor a blank
\* line past 30% of chunk_size ends just after the period of its last ". "
\* when that lies past 30%; and a window is cut at exactly chunk_size only
\* when it has none of the three past 30%.
SentenceCutElseHardCut ==
    (chunk_size >= 1) =>
        \A i \in NonFinal :
            /\ (~LateFence(i) /\ ~LateBreak(i)) =>
                  \A p \in Periods(i) :
                      (IsLast(Periods(i), p) /\ Past30(p)) =>
                          windows[i].end = windows[i].start + p + 1
            /\ (windows[i].end = windows[i].start + chunk_size) =>
                  (~LateFence(i) /\ ~LateBreak(i) /\ ~LatePeriod(i))

\* C16: for chunk_size >= 1 no chunk is longer than chunk_size.
ChunksWithinSize ==
    (chunk_size >= 1) => \A i \in DOMAIN chunks : Len(chunks[i]) <= chunk_size

\* two chunks of exactly chunk_size characters, a hard cut and the rest
ChunksWithinSizeWitness ==
    /\ pc = "returned"
    /\ chunk_size >= 2
    /\ Len(chunks) = 2
    /\ Len(chunks[1]) = chunk_size
    /\ Len(chunks[2]) = chunk_size
    /\ 1 \in NonFinal
    /\ ~LateFence(1) /\ ~LateBreak(1) /\ ~LatePeriod(1)

\* C17: for every text and every integer chunk_size the loop ends: start
\* grows with each iteration that is not the last, so a text of n
\* characters takes at most n iterations.
StartAdvancesEachIteration ==
    /\ \A i \in NonFinal : windows[i].end > windows[i].start
    /\ iterations <= Len(text)

-----------------------------------------------------------------------------
(* Part 4: the RAG fan-outs of search (lines 632-710) and of               *)
(*         smart_crawl_url (lines 1386-1445)                               *)
(* A task is a record [doc, q, state]: the scraped URL or crawled document *)
(* and the query string it is for, and "pending" (not past the semaphore), *)
(* "running" (inside perform_rag_query) or how the sub-query ended.        *)

MaxUrls == 3        \* most URLs scraped by search
MaxDocs == 2        \* most documents crawled by smart_crawl_url
MaxWorkers == 2     \* largest max_rag_workers passed

DefaultRagWorkers == 5          \* int(os.getenv("MAX_RAG_WORKERS", "5"))

QueryCounts == {1, 2}           \* len(query) in smart_crawl_url
WorkerArguments == {<< >>} \cup {<< n >> : n \in (-1)..MaxWorkers}

\* [rate_limited_rag_query(url) for url in valid_urls]
SearchTasks(valid_urls) ==
    [i \in 1..valid_urls |-> [doc |-> i, q |-> 1, state |-> "pending"]]

\* for doc in crawl_results: for q in query: query_tasks.append(...)
CrawlTasks(docs, queries) ==
    [i \in 1..(docs * queries) |->
        [doc |-> ((i - 1) \div queries) + 1, q |-> ((i - 1) % queries) + 1,
         state |-> "pending"]]

\* how a sub-query ends: search wraps perform_rag_query in a 30 s wait_for
TaskOutcomes(tool) ==
    IF tool = "search" THEN {"results", "no_results", "timeout", "error"}
    ELSE {"results", "no_results", "error"}

Finished(task) == task.state \notin {"pending", "running"}

InFlight == Cardinality({i \in DOMAIN tasks : tasks[i].state = "running"})

\* an acquire that never waits
CanAcquireAlways(value) == TRUE

\* Semaphore.acquire returns at once while the value is positive
CanAcquire(value) == value > 0

InitPool ==
    /\ pc = "fanout"
    /\ fanout \in {"search", "smart_crawl_url"}
    /\ max_rag_workers \in WorkerArguments
    /\ semaphore = 0
    /\ \/ /\ fanout = "search"
          /\ \E valid_urls \in 1..MaxUrls : tasks = SearchTasks(valid_urls)
       \/ /\ fanout = "smart_crawl_url"
          /\ \E docs \in 1..MaxDocs, queries \in QueryCounts :
                tasks = CrawlTasks(docs, queries)
    /\ reply = << >>
    /\ QueryIdle
    /\ ChunkerIdle
    /\ ScrapeIdle
    /\ GraphIdle
    /\ SectionIdle
    /\ LimiterIdle
    /\ CacheIdle
    /\ ShutdownIdle
    /\ CrawlIdle

\* lines 692-696 and 1415-1419: the default, then asyncio.Semaphore(n), which
\* raises ValueError for a negative n; the tool's except clause answers it
CreateSemaphore ==
    /\ pc = "fanout"
    /\ LET n == IF max_rag_workers = << >> THEN DefaultRagWorkers ELSE max_rag_workers[1] IN
         IF n < 0
         THEN /\ reply' = << [success |-> FALSE, answered |-> 0] >>
              /\ pc' = "done"
              /\ UNCHANGED << max_rag_workers, semaphore >>
         ELSE /\ max_rag_workers' = << n >>
              /\ semaphore' = n
              /\ pc' = "gathering"
              /\ UNCHANGED reply
    /\ UNCHANGED << fanout, tasks >>
    /\ UNCHANGED outsidePool

\* lines 698-700 and 1421-1423: async with semaphore, entered by the tasks in
\* the order gather started them
Acquire ==
    /\ pc = "gathering"
    /\ \E i \in DOMAIN tasks :
         /\ tasks[i].state = "pending"
         /\ \A j \in 1..(i - 1) : tasks[j].state # "pending"
         /\ CanAcquire(semaphore)
         /\ tasks' = [tasks EXCEPT ![i].state = "running"]
    /\ semaphore' = semaphore - 1
    /\ UNCHANGED << pc, fanout, max_rag_workers, reply >>
    /\ UNCHANGED outsidePool

\* lines 636-687 and 1391-1412: the sub-query returns, times out or raises;
\* leaving the async with block releases the semaphore
Finish ==
    /\ pc = "gathering"
    /\ \E i \in DOMAIN tasks, outcome \in TaskOutcomes(fanout) :
         /\ tasks[i].state = "running"
         /\ tasks' = [tasks EXCEPT ![i].state = outcome]
    /\ semaphore' = semaphore + 1
    /\ UNCHANGED << pc, fanout, max_rag_workers, reply >>
    /\ UNCHANGED outsidePool

\* lines 704-710 and 1439-1445: gather returns once every task has; search
\* counts the URLs with results, smart_crawl_url every sub-query
Gather ==
    /\ pc = "gathering"
    /\ \A i \in DOMAIN tasks : Finished(tasks[i])
    /\ reply' = << [success |-> TRUE,
                    answered |-> IF fanout = "search"
                                 THEN Cardinality({i \in DOMAIN tasks :
                                                     tasks[i].state = "results"})
                                 ELSE Len(tasks)] >>
    /\ pc' = "done"
    /\ UNCHANGED poolVars
    /\ UNCHANGED outsidePool

NextPool == CreateSemaphore \/ Acquire \/ Finish \/ Gather

SpecPool == InitPool /\ [][NextPool]_vars

\* the event loop runs every task that can run: a step that stays possible
\* is taken
SpecPoolFair ==
    /\ SpecPool
    /\ WF_vars(CreateSemaphore)
    /\ WF_vars(Acquire)
    /\ WF_vars(Finish)
    /\ WF_vars(Gather)

-----------------------------------------------------------------------------
(* Part 5: _process_multiple_urls, lines 836-1174                          *)
(* A URL is a number; scrape_urls passes the URLs without duplicates.      *)

MaxScrapeUrls == 3  \* most URLs in one scrape_urls call

\* the failed-crawl branch leaving no entry behind
RecordFailureDropped(entries, url, error) == entries

\* url_results.append({"url": ..., "success": False, "error": ...})
RecordFailure(entries, url, error) ==
    Append(entries, [url |-> url, success |-> FALSE, error |-> error])

\* url_results.append({"url": ..., "success": True, ...})
RecordSuccess(entries, url) == Append(entries, [url |-> url, success |-> TRUE])

\* lines 1155-1174: the answer of the outer except clause
ErrorReply(requested) ==
    IF Len(requested) = 1
    THEN [success |-> FALSE, url |-> requested[1]]
    ELSE [success |-> FALSE, mode |-> "multi_url", total_urls |-> Len(requested)]

InitScrape ==
    /\ pc = "crawl_batch"
    /\ \E n \in 1..MaxScrapeUrls : urls = [i \in 1..n |-> i]
    /\ return_raw_markdown \in BOOLEAN
    /\ crawl_results = {}
    /\ url_results = << >>
    /\ successful_urls = 0
    /\ failed_urls = 0
    /\ errors = << >>
    /\ raised = "none"
    /\ reply = << >>
    /\ QueryIdle
    /\ ChunkerIdle
    /\ PoolIdle
    /\ GraphIdle
    /\ SectionIdle
    /\ LimiterIdle
    /\ CacheIdle
    /\ ShutdownIdle
    /\ CrawlIdle

\* line 865: crawl_batch returns the results that succeeded with markdown,
\* each under the URL the crawler reports for it, or the crawler raises
CrawlBatch ==
    /\ pc = "crawl_batch"
    /\ \/ /\ \E found \in SUBSET {urls[i] : i \in DOMAIN urls} : crawl_results' = found
          /\ pc' = IF return_raw_markdown THEN "raw" ELSE "processing"
          /\ UNCHANGED << raised, reply >>
       \/ /\ raised' = "crawl_batch"
          /\ reply' = << ErrorReply(urls) >>
          /\ pc' = "done"
          /\ UNCHANGED crawl_results
    /\ UNCHANGED << urls, return_raw_markdown, url_results, successful_urls,
                    failed_urls, errors >>
    /\ UNCHANGED outsideScrape

\* lines 868-899: raw markdown mode
RawReply ==
    /\ pc = "raw"
    /\ reply' = << [success |-> TRUE, mode |-> "raw_markdown",
                    results |-> [u \in {urls[i] : i \in DOMAIN urls} |->
                                    IF u \in crawl_results THEN "markdown"
                                    ELSE "No content retrieved"],
                    urls_processed |-> Cardinality(crawl_results)] >>
    /\ pc' = "done"
    /\ UNCHANGED scrapeVars
    /\ UNCHANGED outsideScrape

\* lines 923-1014: one iteration of the loop over urls
ProcessUrl ==
    /\ pc = "processing"
    /\ Len(url_results) < Len(urls)
    /\ LET original_url == urls[Len(url_results) + 1] IN
         IF original_url \in crawl_results
         THEN \/ /\ url_results' = RecordSuccess(url_results, original_url)
                 /\ successful_urls' = successful_urls + 1
                 /\ UNCHANGED << failed_urls, errors >>
              \/ /\ url_results' = RecordFailure(url_results, original_url, "processing")
                 /\ errors' = Append(errors, [url |-> original_url, phase |-> "processing"])
                 /\ failed_urls' = failed_urls + 1
                 /\ UNCHANGED successful_urls
         ELSE /\ url_results' = RecordFailure(url_results, original_url,
                                              "No content retrieved")
              /\ errors' = Append(errors, [url |-> original_url, phase |-> "crawl"])
              /\ failed_urls' = failed_urls + 1
              /\ UNCHANGED successful_urls
    /\ UNCHANGED << pc, urls, return_raw_markdown, crawl_results, raised, reply >>
    /\ UNCHANGED outsideScrape

\* lines 1016-1092: source summaries, documents and code examples are stored
\* when something was crawled; an exception there reaches the outer handler
Store ==
    /\ pc = "processing"
    /\ Len(url_results) = Len(urls)
    /\ \/ /\ pc' = "responding"
          /\ UNCHANGED << raised, reply >>
       \/ /\ crawl_results # {}
          /\ raised' = "store"
          /\ reply' = << ErrorReply(urls) >>
          /\ pc' = "done"
    /\ UNCHANGED << urls, return_raw_markdown, crawl_results, url_results,
                    successful_urls, failed_urls, errors >>
    /\ UNCHANGED outsideScrape

\* lines 1097-1153: the legacy answer for one URL, the summary for several
Respond ==
    /\ pc = "responding"
    /\ reply' = IF Len(urls) = 1
                THEN << [success |-> url_results[1].success, url |-> urls[1]] >>
                ELSE << [success |-> TRUE, mode |-> "multi_url",
                         total_urls |-> Len(urls),
                         successful_urls |-> successful_urls,
                         failed_urls |-> failed_urls,
                         results |-> url_results,
                         errors |-> errors] >>
    /\ pc' = "done"
    /\ UNCHANGED scrapeVars
    /\ UNCHANGED outsideScrape

NextScrape == CrawlBatch \/ RawReply \/ ProcessUrl \/ Store \/ Respond

SpecScrape == InitScrape /\ [][NextScrape]_vars

-----------------------------------------------------------------------------
(* Properties of the RAG fan-outs                                          *)

\* C18: in both fan-outs, for every max_rag_workers >= 1 and any number of
\* sub-queries, at most max_rag_workers calls of perform_rag_query are in
\* flight at any moment.
InFlightWithinWorkers ==
    (pc \in {"gathering", "done"} /\ max_rag_workers # << >>) =>
        (max_rag_workers[1] >= 1 => InFlight <= max_rag_workers[1])

\* every worker busy, one sub-query answered and one still waiting
InFlightWithinWorkersWitness ==
    /\ pc = "gathering"
    /\ max_rag_workers = << 2 >>
    /\ InFlight = 2
    /\ \E i \in DOMAIN tasks : tasks[i].state = "pending"
    /\ \E i \in DOMAIN tasks : Finished(tasks[i])

-----------------------------------------------------------------------------
(* Properties of _process_multiple_urls                                    *)

Requested == {urls[i] : i \in DOMAIN urls}

\* the entries of the answer that are for url
EntriesFor(url) == {i \in DOMAIN reply[1].results : reply[1].results[i].url = url}

\* the URLs the answer reports as scraped
Succeeded == {u \in Requested : \E i \in EntriesFor(u) : reply[1].results[i].success}

\* C19: when several distinct URLs are scraped in one call, the answer has
\* one entry per requested URL, each with its own success flag, true exactly
\* for the URLs that were crawled and processed; successful_urls and
\* failed_urls count these entries and add up to total_urls. URLs that fail
\* never make the answer a failure as a whole: that happens only when the
\* crawler or the storage raises. In raw markdown mode the answer maps every
\* requested URL to its markdown or to "No content retrieved".
MixedResultsReported ==
    (pc = "done" /\ Len(urls) >= 2) =>
        /\ (raised = "none") => reply[1].success
        /\ (raised = "none" /\ ~return_raw_markdown) =>
              /\ reply[1].mode = "multi_url"
              /\ Len(reply[1].results) = Len(urls)
              /\ \A u \in Requested : Cardinality(EntriesFor(u)) = 1
              /\ Succeeded \subseteq crawl_results
              /\ \A u \in Requested \ crawl_results : u \notin Succeeded
              /\ reply[1].successful_urls = Cardinality(Succeeded)
              /\ reply[1].failed_urls = Cardinality(Requested \ Succeeded)
              /\ reply[1].total_urls = Len(urls)
              /\ reply[1].successful_urls + reply[1].failed_urls = reply[1].total_urls
        /\ (raised = "none" /\ return_raw_markdown) =>
              /\ DOMAIN reply[1].results = Requested
              /\ \A u \in Requested :
                    (reply[1].results[u] = "markdown") <=> (u \in crawl_results)

\* three URLs: one stored, one that gave no content, one that failed in
\* processing
MixedResultsWitness ==
    /\ pc = "done"
    /\ Len(urls) = 3
    /\ raised = "none"
    /\ ~return_raw_markdown
    /\ reply[1].successful_urls = 1
    /\ reply[1].failed_urls = 2
    /\ \E i, j \in DOMAIN errors : errors[i].phase = "crawl" /\ errors[j].phase = "processing"

-----------------------------------------------------------------------------
(* Part 6: query_knowledge_graph and its handlers, lines 2072-2522         *)
(* The graph is what it holds for the command at hand: how many Repository *)
(* nodes, how many classes and methods and attributes match, how many rows *)
(* the custom query yields. A Cypher query is the number of records read   *)
(* from it.                                                                *)

RecordLimit == 20               \* limit = 20, LIMIT 20, if count >= 20: break

GraphCounts == {0, 1, RecordLimit, RecordLimit + 1}
Graphs == [repositories : GraphCounts, classes : GraphCounts, methods : GraphCounts,
           attributes : GraphCounts, rows : GraphCounts]
Commands == [cmd : {"repos", "explore", "classes", "class", "method", "query", "other"},
             args : 0..2]

\* a query with LIMIT n, or an iteration that stops after n records
Limited(matching, n) == Min(matching, n)

\* a query without LIMIT, iterated to its end
Unlimited(matching) == matching

\* await result.single() on a query of at most one record
Single(matching) == Min(matching, 1)

InitGraph ==
    /\ pc = "command"
    /\ command \in Commands
    /\ graph \in Graphs
    /\ returned = << >>
    /\ reply = << >>
    /\ QueryIdle
    /\ ChunkerIdle
    /\ PoolIdle
    /\ ScrapeIdle
    /\ SectionIdle
    /\ LimiterIdle
    /\ CacheIdle
    /\ ShutdownIdle
    /\ CrawlIdle

\* lines 2172-2214: an unknown command or one without its argument
RejectCommand ==
    /\ pc = "command"
    /\ \/ command.cmd = "other"
       \/ command.cmd \in {"explore", "class", "method", "query"} /\ command.args = 0
    /\ reply' = << [success |-> FALSE] >>
    /\ pc' = "done"
    /\ UNCHANGED graphVars
    /\ UNCHANGED outsideGraph

\* lines 2223-2242: MATCH (r:Repository) RETURN r.name ORDER BY r.name
HandleRepos ==
    /\ pc = "command"
    /\ command.cmd = "repos"
    /\ returned' = << Unlimited(graph.repositories) >>
    /\ reply' = << [success |-> TRUE, total_results |-> Unlimited(graph.repositories)] >>
    /\ pc' = "done"
    /\ UNCHANGED << command, graph >>
    /\ UNCHANGED outsideGraph

\* lines 2245-2307: the repository check, then four count queries
HandleExplore ==
    /\ pc = "command"
    /\ command.cmd = "explore" /\ command.args >= 1
    /\ IF Single(graph.repositories) = 0
       THEN /\ returned' = << 0 >>
            /\ reply' = << [success |-> FALSE] >>
       ELSE /\ returned' = << 1, 1, 1, 1, 1 >>
            /\ reply' = << [success |-> TRUE, total_results |-> 1] >>
    /\ pc' = "done"
    /\ UNCHANGED << command, graph >>
    /\ UNCHANGED outsideGraph

\* lines 2310-2349: both queries end with LIMIT $limit
HandleClasses ==
    /\ pc = "command"
    /\ command.cmd = "classes"
    /\ returned' = << Limited(graph.classes, RecordLimit) >>
    /\ reply' = << [success |-> TRUE,
                    total_results |-> Limited(graph.classes, RecordLimit)] >>
    /\ pc' = "done"
    /\ UNCHANGED << command, graph >>
    /\ UNCHANGED outsideGraph

\* lines 2352-2426: the class with LIMIT 1, then its methods and its
\* attributes, both without LIMIT
HandleClass ==
    /\ pc = "command"
    /\ command.cmd = "class" /\ command.args >= 1
    /\ IF Limited(graph.classes, 1) = 0
       THEN /\ returned' = << 0 >>
            /\ reply' = << [success |-> FALSE] >>
       ELSE /\ returned' = << 1, Unlimited(graph.methods), Unlimited(graph.attributes) >>
            /\ reply' = << [success |-> TRUE, total_results |-> 1,
                            methods_count |-> Unlimited(graph.methods),
                            attributes_count |-> Unlimited(graph.attributes)] >>
    /\ pc' = "done"
    /\ UNCHANGED << command, graph >>
    /\ UNCHANGED outsideGraph

\* lines 2429-2484: LIMIT 20 only when no class name is given
HandleMethod ==
    /\ pc = "command"
    /\ command.cmd = "method" /\ command.args >= 1
    /\ LET methods == IF command.args >= 2 THEN Unlimited(graph.methods)
                      ELSE Limited(graph.methods, RecordLimit) IN
         /\ returned' = << methods >>
         /\ reply' = IF methods = 0 THEN << [success |-> FALSE] >>
                     ELSE << [success |-> TRUE, total_results |-> methods] >>
    /\ pc' = "done"
    /\ UNCHANGED << command, graph >>
    /\ UNCHANGED outsideGraph

\* lines 2487-2522: the iteration stops after 20 records; a Cypher error is
\* answered as a failure
HandleQuery ==
    /\ pc = "command"
    /\ command.cmd = "query" /\ command.args >= 1
    /\ \/ /\ returned' = << Limited(graph.rows, RecordLimit) >>
          /\ reply' = << [success |-> TRUE,
                          total_results |-> Limited(graph.rows, RecordLimit)] >>
       \/ /\ returned' = << 0 >>
          /\ reply' = << [success |-> FALSE] >>
    /\ pc' = "done"
    /\ UNCHANGED << command, graph >>
    /\ UNCHANGED outsideGraph

NextGraph ==
    \/ RejectCommand
    \/ HandleRepos
    \/ HandleExplore
    \/ HandleClasses
    \/ HandleClass
    \/ HandleMethod
    \/ HandleQuery

SpecGraph == InitGraph /\ [][NextGraph]_vars

-----------------------------------------------------------------------------
(* Properties of the knowledge-graph commands                              *)

\* C20: whatever the command and the graph, no Cypher query hands more than
\* 20 records to the caller.
RecordsWithinLimit == \A i \in DOMAIN returned : returned[i] <= 20

-----------------------------------------------------------------------------
(* Part 7: extract_section_info, lines 412-429                             *)
(* The chunk is a sequence of characters. re.findall scans the chunk for   *)
(* ^(#+)\s+(.+)$ under re.MULTILINE from left to right: a match starts at  *)
(* the start of a line, \s matches a newline as well as a space, "." does  *)
(* not match a newline, and the scan goes on after the end of a match.     *)

MaxChunkLen == 5    \* longest chunk, the scenario chunk apart

Hash == "#"
SectionCharacters == {Hash, " ", "\n", "a"}
SectionChunks == UNION {[1..n -> SectionCharacters] : n \in 0..MaxChunkLen}

\* "# Title\n\nSome text"
ScenarioChunk == << "#", " ", "T", "i", "t", "l", "e", "\n", "\n",
                    "S", "o", "m", "e", " ", "t", "e", "x", "t" >>

\* the last index of the run of characters of set that starts at i, i - 1 if
\* c[i] is not one
RECURSIVE RunEnd(_, _, _)
RunEnd(c, i, set) ==
    IF i <= Len(c) /\ c[i] \in set THEN RunEnd(c, i + 1, set) ELSE i - 1

\* what "." matches, among the characters of c
NotNewline(c) == {c[i] : i \in DOMAIN c} \ {"\n"}

\* what \s does not match, among the characters of c
NotWhitespace(c) == {c[i] : i \in DOMAIN c} \ Whitespace

\* ^ under re.MULTILINE
AtLineStart(c, i) == i = 1 \/ c[i - 1] = "\n"

\* \s+ that stays on the line of the hashes
WhitespaceEndOnLine(c, j) == RunEnd(c, j + 1, {" "})

\* \s+, greedy: the end of the whitespace run after the hashes that end at j
WhitespaceEnd(c, j) == RunEnd(c, j + 1, Whitespace)

\* \s+(.+): \s+ gives back characters until one that "." matches follows it;
\* the index where (.+) then starts, 0 when there is none
TextStart(c, j) ==
    LET w == WhitespaceEnd(c, j)
        ks == {k \in (j + 2)..(w + 1) : k <= Len(c) /\ c[k] # "\n"}
    IN  IF ks = {} THEN 0 ELSE CHOOSE k \in ks : \A other \in ks : other <= k

\* the match that starts at i, as << [hashes, title, end] >>, << >> if none
MatchAt(c, i) ==
    LET j == RunEnd(c, i, {Hash})
        k == IF j >= i THEN TextStart(c, j) ELSE 0
        e == RunEnd(c, k, NotNewline(c))
    IN  IF AtLineStart(c, i) /\ k > 0
        THEN << [hashes |-> SubSeq(c, i, j), title |-> SubSeq(c, k, e), end |-> e] >>
        ELSE << >>

\* re.findall(r'^(#+)\s+(.+)$', chunk, re.MULTILINE), from index pos on
RECURSIVE FindAll(_, _)
FindAll(c, pos) ==
    IF pos > Len(c) THEN << >>
    ELSE LET m == MatchAt(c, pos)
         IN  IF m = << >> THEN FindAll(c, pos + 1)
             ELSE << [hashes |-> m[1].hashes, title |-> m[1].title] >>
                  \o FindAll(c, m[1].end + 1)

\* sep.join(parts)
RECURSIVE Join(_, _)
Join(sep, parts) ==
    IF parts = << >> THEN << >>
    ELSE IF Len(parts) = 1 THEN parts[1]
    ELSE parts[1] \o sep \o Join(sep, Tail(parts))

\* '; '.join([f'{h[0]} {h[1]}' for h in headers]) if headers else ''
HeaderStr(headers) ==
    Join(<< ";", " " >>,
         [n \in DOMAIN headers |-> headers[n].hashes \o << " " >> \o headers[n].title])

\* chunk.split()
RECURSIVE Split(_)
Split(c) ==
    LET s == LStrip(c)
        e == RunEnd(s, 1, NotWhitespace(s))
    IN  IF s = << >> THEN << >>
        ELSE << SubSeq(s, 1, e) >> \o Split(SubSeq(s, e + 1, Len(s)))

extract_section_info(c) ==
    [headers |-> HeaderStr(FindAll(c, 1)),
     char_count |-> Len(c),
     word_count |-> Len(Split(c))]

InitSection ==
    /\ pc = "extract"
    /\ section_chunk \in SectionChunks \cup {ScenarioChunk}
    /\ reply = << >>
    /\ QueryIdle
    /\ ChunkerIdle
    /\ PoolIdle
    /\ ScrapeIdle
    /\ GraphIdle
    /\ LimiterIdle
    /\ CacheIdle
    /\ ShutdownIdle
    /\ CrawlIdle

ExtractSectionInfo ==
    /\ pc = "extract"
    /\ reply' = << extract_section_info(section_chunk) >>
    /\ pc' = "done"
    /\ UNCHANGED sectionVars
    /\ UNCHANGED outsideSection

NextSection == ExtractSectionInfo

SpecSection == InitSection /\ [][NextSection]_vars

-----------------------------------------------------------------------------
(* Properties of extract_section_info                                      *)

\* a call of extract_section_info has returned
Extracted == pc = "done"

\* the indices of the chunk where a whitespace-separated token starts
WordStarts(c) ==
    {i \in DOMAIN c : c[i] \notin Whitespace /\ (i = 1 \/ c[i - 1] \in Whitespace)}

\* the indices last of which may start the text of a header whose hashes
\* start at i: hashes from i on, then whitespace only, then a character other
\* than a newline
HeaderTexts(c, i, last) ==
    {k \in (i + 2)..last :
        /\ c[k] # "\n"
        /\ \E j \in i..(k - 2) : /\ \A n \in i..j : c[n] = Hash
                                 /\ \A n \in (j + 1)..(k - 1) : c[n] \in Whitespace}

\* the last index of the line of index k
LineEnd(c, k) ==
    CHOOSE e \in k..Len(c) : /\ \A n \in (k + 1)..e : c[n] # "\n"
                             /\ e = Len(c) \/ c[e + 1] = "\n"

\* the header that starts at i: its text starts as late as it can and runs to
\* the end of its line
IsHeader(c, i) == AtLineStart(c, i) /\ HeaderTexts(c, i, Len(c)) # {}
TitleStart(c, i) ==
    CHOOSE k \in HeaderTexts(c, i, Len(c)) : \A other \in HeaderTexts(c, i, Len(c)) : other <= k
TitleEnd(c, i) == LineEnd(c, TitleStart(c, i))

\* the headers found: every header that starts outside the headers found
\* before it
Found(c) ==
    CHOOSE S \in SUBSET {i \in DOMAIN c : IsHeader(c, i)} :
        \A i \in DOMAIN c :
            i \in S <=> /\ IsHeader(c, i)
                        /\ \A before \in S : ~ (before < i /\ i <= TitleEnd(c, before))

\* hashes, one space, text
Reported(c, i) ==
    LET hashes == {j \in i..Len(c) : \A n \in i..j : c[n] = Hash}
    IN  [n \in 1..Cardinality(hashes) |-> Hash] \o << " " >>
        \o SubSeq(c, TitleStart(c, i), TitleEnd(c, i))

\* the lines of the chunk that are headers by themselves, by first index
HeaderLines(c) ==
    {i \in DOMAIN c : AtLineStart(c, i) /\ c[i] # "\n"
                      /\ HeaderTexts(c, i, LineEnd(c, i)) # {}}

\* what[i] for the indices i of S in increasing order, "; " in between
RECURSIVE InOrder(_, _)
InOrder(what, S) ==
    IF S = {} THEN << >>
    ELSE LET i == CHOOSE first \in S : \A other \in S : first <= other
         IN  IF S = {i} THEN what[i]
             ELSE what[i] \o << ";", " " >> \o InOrder(what, S \ {i})

TitleSummary == << "#", " ", "T", "i", "t", "l", "e" >>

\* C21, as amended: the header summary is, for each match of ^(#+)\s+(.+)$
\* found from left to right, the hashes, one space and the text, joined with
\* "; ", the whitespace after the hashes running over line ends; word_count
\* is the number of whitespace-separated tokens; the chunk "# Title", blank
\* line, "Some text" yields "# Title" and word_count 4.
SectionInfoReported ==
    Extracted =>
        LET c == section_chunk
            info == reply[1]
        IN  /\ info.headers = InOrder([i \in Found(c) |-> Reported(c, i)], Found(c))
            /\ info.word_count = Cardinality(WordStarts(c))
            /\ (c = ScenarioChunk) =>
                   (info.headers = TitleSummary /\ info.word_count = 4)

\* the scenario chunk has been extracted, and so has a chunk whose header
\* runs over a line end
SectionInfoWitness ==
    /\ Extracted
    /\ \/ section_chunk = ScenarioChunk /\ reply[1].headers = TitleSummary
       \/ section_chunk = << "#", "\n", "a" >> /\ reply[1].headers = << "#", " ", "a" >>

\* C21, as stated: the header summary is the header lines of the chunk joined
\* with "; ", word_count is the number of whitespace-separated tokens, and
\* the scenario chunk yields "# Title" and word_count 3.
SectionInfoAsClaimed ==
    Extracted =>
        LET c == section_chunk
            info == reply[1]
        IN  /\ info.headers =
                   InOrder([i \in HeaderLines(c) |-> SubSeq(c, i, LineEnd(c, i))],
                           HeaderLines(c))
            /\ info.word_count = Cardinality(WordStarts(c))
            /\ (c = ScenarioChunk) =>
                   (info.headers = TitleSummary /\ info.word_count = 3)

-----------------------------------------------------------------------------
(* Part 8: RateLimitMiddleware, src/src/api/middleware.py lines 145-213    *)
(* Time is in whole seconds. dispatch runs without an await from its       *)
(* reading of the clock to call_next, so that stretch is one action.       *)

MaxLimit == 2       \* largest requests_per_minute
MaxRequests == 4    \* most requests dispatched

window_size == 60               \* self.window_size = 60

ClientIps == {"a", "b"}
\* int(os.getenv("API_RATE_LIMIT", default_limit)); a limit is a count
RateLimits == 0..MaxLimit
Steps == {0, 1, window_size - 1, window_size}   \* seconds between two arrivals

\* [timestamp for timestamp in log if timestamp > cutoff_time], never cleaned
KeepAll(log, cutoff_time) == log

\* [timestamp for timestamp in log if timestamp > cutoff_time]
RECURSIVE Fresh(_, _)
Fresh(log, cutoff_time) ==
    IF log = << >> THEN << >>
    ELSE IF Head(log) > cutoff_time
         THEN << Head(log) >> \o Fresh(Tail(log), cutoff_time)
         ELSE Fresh(Tail(log), cutoff_time)

InitLimiter ==
    /\ pc = "serving"
    /\ requests_per_minute \in RateLimits
    /\ request_log = [ip \in ClientIps |-> << >>]
    /\ now = 0
    /\ decisions = << >>
    /\ reply = << >>
    /\ QueryIdle
    /\ ChunkerIdle
    /\ PoolIdle
    /\ ScrapeIdle
    /\ GraphIdle
    /\ SectionIdle
    /\ CacheIdle
    /\ ShutdownIdle
    /\ CrawlIdle

\* lines 169-178: the clock is read and the log of the client is cleaned
Cleaned(client_ip, current_time) ==
    Fresh(request_log[client_ip], current_time - window_size)

\* lines 180-207: the limit is reached; HTTPException 429, or IndexError on
\* an empty log when the limit is not positive
RejectRequest ==
    /\ pc = "serving"
    /\ Len(decisions) < MaxRequests
    /\ \E client_ip \in ClientIps, step \in Steps :
        LET current_time == now + step
            log == Cleaned(client_ip, current_time)
        IN  /\ Len(log) >= requests_per_minute
            /\ now' = current_time
            /\ request_log' = [request_log EXCEPT ![client_ip] = log]
            /\ decisions' = Append(decisions, [ip |-> client_ip, time |-> current_time,
                                               forwarded |-> FALSE])
    /\ UNCHANGED << pc, requests_per_minute, reply >>
    /\ UNCHANGED outsideLimiter

\* lines 212-216: the request is logged and handed to call_next
ForwardRequest ==
    /\ pc = "serving"
    /\ Len(decisions) < MaxRequests
    /\ \E client_ip \in ClientIps, step \in Steps :
        LET current_time == now + step
            log == Cleaned(client_ip, current_time)
        IN  /\ ~ (Len(log) >= requests_per_minute)
            /\ now' = current_time
            /\ request_log' = [request_log EXCEPT ![client_ip] = Append(log, current_time)]
            /\ decisions' = Append(decisions, [ip |-> client_ip, time |-> current_time,
                                               forwarded |-> TRUE])
    /\ UNCHANGED << pc, requests_per_minute, reply >>
    /\ UNCHANGED outsideLimiter

NextLimiter == RejectRequest \/ ForwardRequest

SpecLimiter == InitLimiter /\ [][NextLimiter]_vars

-----------------------------------------------------------------------------
(* Properties of RateLimitMiddleware                                       *)

\* the dispatches before the n-th that forwarded a request of the same client
\* less than 60 seconds before the n-th
ForwardedBefore(n) ==
    {m \in 1..(n - 1) : /\ decisions[m].ip = decisions[n].ip
                        /\ decisions[m].forwarded
                        /\ decisions[m].time > decisions[n].time - 60}

\* the requests of client ip forwarded in the 60 seconds that start at time t
ForwardedIn(ip, t) ==
    {m \in DOMAIN decisions : /\ decisions[m].ip = ip
                              /\ decisions[m].forwarded
                              /\ decisions[m].time >= t
                              /\ decisions[m].time < t + 60}

\* C22: a request is forwarded exactly when fewer than requests_per_minute
\* requests of its client were forwarded in the 60 seconds before it, whatever
\* the other clients sent; no 60 seconds hold more than requests_per_minute
\* forwarded requests of one client.
SlidingWindowRateLimit ==
    /\ \A n \in DOMAIN decisions :
        decisions[n].forwarded <=> Cardinality(ForwardedBefore(n)) < requests_per_minute
    /\ \A ip \in ClientIps, t \in 0..now :
        Cardinality(ForwardedIn(ip, t)) <= requests_per_minute

\* a client at its limit is turned away while another client is served, and
\* is served again once its request is 60 seconds old
SlidingWindowWitness ==
    /\ requests_per_minute = 1
    /\ \E k, m, n \in DOMAIN decisions :
        /\ k < m /\ m < n
        /\ decisions[k].ip = decisions[m].ip /\ decisions[m].ip = decisions[n].ip
        /\ decisions[k].forwarded /\ ~ decisions[m].forwarded /\ decisions[n].forwarded
        /\ decisions[n].time = decisions[k].time + 60
        /\ \E other \in (k + 1)..(m - 1) :
            decisions[other].ip # decisions[k].ip /\ decisions[other].forwarded

-----------------------------------------------------------------------------
(* Part 9: Cache and cached, src/src/utils/cache.py lines 40-176           *)
(* Time is in whole seconds. The wrapper of cached runs on the event loop: *)
(* from its start to the await of the function is one action, from the     *)
(* function's return to the wrapper's return another.                      *)

MaxTtl == 2         \* largest ttl_seconds, of the instance or of the decorator
MaxClock == 3       \* last reading of the clock
MaxCallers == 2     \* calls of the decorated function

CacheKeys == {"k1", "k2"}
Callers == 1..MaxCallers
Ttls == 1..MaxTtl
TtlOverrides == {<< >>} \cup {<< n >> : n \in Ttls}

\* time.time() - entry["timestamp"] <= self.ttl_seconds
IsFreshAtTtl(entry) == clock - entry.timestamp <= ttl_seconds

\* line 66: time.time() - entry["timestamp"] < self.ttl_seconds
IsFresh(entry) == clock - entry.timestamp < ttl_seconds

\* Cache.get, lines 54-74: what it returns, << >> for None
Get(key) ==
    IF cache[key] # << >> /\ IsFresh(cache[key][1]) THEN << cache[key][1].data >>
    ELSE << >>

\* Cache.get, lines 69-72: the cache it leaves
AfterGet(key) ==
    IF cache[key] # << >> /\ ~ IsFresh(cache[key][1])
    THEN [cache EXCEPT ![key] = << >>]
    ELSE cache

\* Cache.set, lines 76-88: the cache it leaves
AfterSet(key, data) ==
    [cache EXCEPT ![key] = << [data |-> data, timestamp |-> clock] >>]

\* history: the get of key that is returning result and leaving after
LookedUp(key, result, after) ==
    << [key |-> key, time |-> clock, result |-> result,
        entry |-> stored[key], present |-> after[key] # << >>] >>

\* a cache with its direct users
InitCache ==
    /\ pc = "caching"
    /\ cache = [key \in CacheKeys |-> << >>]
    /\ ttl_seconds \in Ttls
    /\ ttl_override = << >>
    /\ clock = 0
    /\ calls = << >>
    /\ stored = [key \in CacheKeys |-> << >>]
    /\ lookup = << >>
    /\ reply = << >>
    /\ QueryIdle
    /\ ChunkerIdle
    /\ PoolIdle
    /\ ScrapeIdle
    /\ GraphIdle
    /\ SectionIdle
    /\ LimiterIdle
    /\ ShutdownIdle
    /\ CrawlIdle

\* a cache behind a function decorated with cached(cache, prefix, ttl_seconds)
InitCached ==
    /\ pc = "cached"
    /\ cache = [key \in CacheKeys |-> << >>]
    /\ ttl_seconds \in Ttls
    /\ ttl_override \in TtlOverrides
    /\ clock = 0
    /\ calls = [c \in Callers |-> [pc |-> "idle"]]
    /\ stored = [key \in CacheKeys |-> << >>]
    /\ lookup = << >>
    /\ reply = << >>
    /\ QueryIdle
    /\ ChunkerIdle
    /\ PoolIdle
    /\ ScrapeIdle
    /\ GraphIdle
    /\ SectionIdle
    /\ LimiterIdle
    /\ ShutdownIdle
    /\ CrawlIdle

\* time passes
Tick ==
    /\ pc \in {"caching", "cached"}
    /\ clock < MaxClock
    /\ clock' = clock + 1
    /\ UNCHANGED << pc, reply, cache, ttl_seconds, ttl_override, calls, stored, lookup >>
    /\ UNCHANGED outsideCache

\* cache.set(key, "x") by a direct user of the cache
CacheSet ==
    /\ pc = "caching"
    /\ \E key \in CacheKeys :
        /\ cache' = AfterSet(key, "x")
        /\ stored' = [stored EXCEPT ![key] =
                         << [data |-> "x", time |-> clock, ttl |-> ttl_seconds] >>]
    /\ UNCHANGED << pc, reply, ttl_seconds, ttl_override, clock, calls, lookup >>
    /\ UNCHANGED outsideCache

\* cache.get(key) by a direct user of the cache
CacheGet ==
    /\ pc = "caching"
    /\ \E key \in CacheKeys :
        /\ cache' = AfterGet(key)
        /\ lookup' = LookedUp(key, Get(key), AfterGet(key))
    /\ UNCHANGED << pc, reply, ttl_seconds, ttl_override, clock, calls, stored >>
    /\ UNCHANGED outsideCache

\* Cache.invalidate, lines 90-99
Invalidate ==
    /\ pc = "caching"
    /\ \E key \in CacheKeys :
        /\ cache[key] # << >>
        /\ cache' = [cache EXCEPT ![key] = << >>]
        /\ stored' = [stored EXCEPT ![key] = << >>]
    /\ UNCHANGED << pc, reply, ttl_seconds, ttl_override, clock, calls, lookup >>
    /\ UNCHANGED outsideCache

\* Cache.clear, lines 101-104
Clear ==
    /\ pc = "caching"
    /\ \E key \in CacheKeys : cache[key] # << >>
    /\ cache' = [key \in CacheKeys |-> << >>]
    /\ stored' = [key \in CacheKeys |-> << >>]
    /\ UNCHANGED << pc, reply, ttl_seconds, ttl_override, clock, calls, lookup >>
    /\ UNCHANGED outsideCache

\* the number of the next execution of the decorated function, its result
Executions ==
    Cardinality({c \in Callers : calls[c].pc # "idle" /\ calls[c].executed})

\* wrapper, lines 146-160: the key is built, the cache is asked, and on a
\* miss the function is called and awaited
CallWrapper ==
    /\ pc = "cached"
    /\ \E c \in Callers, cache_key \in CacheKeys :
        LET cached_result == Get(cache_key)
            joined == {o \in Callers : /\ calls[o].pc = "awaiting"
                                       /\ calls[o].key = cache_key}
        IN  /\ calls[c].pc = "idle"
            /\ cache' = AfterGet(cache_key)
            /\ lookup' = LookedUp(cache_key, cached_result, AfterGet(cache_key))
            /\ calls' = [calls EXCEPT ![c] =
                  IF cached_result # << >>
                  THEN [pc |-> "done", key |-> cache_key, executed |-> FALSE,
                        joined |-> {}, result |-> cached_result[1]]
                  ELSE [pc |-> "awaiting", key |-> cache_key, executed |-> TRUE,
                        joined |-> joined, result |-> Executions + 1]]
    /\ UNCHANGED << pc, reply, ttl_seconds, ttl_override, clock, stored >>
    /\ UNCHANGED outsideCache

\* wrapper, lines 160-174: the function has returned; its result is stored,
\* under the decorator's ttl_seconds if it has one, and returned
FuncReturns ==
    /\ pc = "cached"
    /\ \E c \in Callers :
        LET old_ttl == ttl_seconds
            set_ttl == IF ttl_override # << >> THEN ttl_override[1] ELSE ttl_seconds
        IN  /\ calls[c].pc = "awaiting"
            /\ cache' = AfterSet(calls[c].key, calls[c].result)
            /\ ttl_seconds' = old_ttl
            /\ stored' = [stored EXCEPT ![calls[c].key] =
                             << [data |-> calls[c].result, time |-> clock,
                                 ttl |-> set_ttl] >>]
            /\ calls' = [calls EXCEPT ![c].pc = "done"]
    /\ UNCHANGED << pc, reply, ttl_override, clock, lookup >>
    /\ UNCHANGED outsideCache

NextCache == Tick \/ CacheSet \/ CacheGet \/ Invalidate \/ Clear

SpecCache == InitCache /\ [][NextCache]_vars

NextCached == Tick \/ CallWrapper \/ FuncReturns

SpecCached == InitCached /\ [][NextCached]_vars

-----------------------------------------------------------------------------
(* Properties of Cache and of cached                                       *)

\* the entry the last get looked for is ttl seconds old or older
LookupExpired(ttl) ==
    lookup[1].entry # << >> /\ lookup[1].time >= lookup[1].entry[1].time + ttl

\* the entry the last get looked for is less than ttl seconds old
LookupInTime(ttl) ==
    lookup[1].entry # << >> /\ lookup[1].time < lookup[1].entry[1].time + ttl

\* C23: a get of a key that was set at time t, and neither invalidated nor
\* cleared since, returns the value before t + ttl_seconds and None from
\* t + ttl_seconds on, and then leaves the key out of the cache.
EntriesExpireByTtl ==
    lookup # << >> =>
        /\ LookupInTime(ttl_seconds) => lookup[1].result = << lookup[1].entry[1].data >>
        /\ ~ LookupInTime(ttl_seconds) => lookup[1].result = << >>
        /\ LookupExpired(ttl_seconds) => ~ lookup[1].present

\* a get at the very second an entry expires found it gone and removed it,
\* while the other key is still served
EntriesExpireWitness ==
    /\ lookup # << >>
    /\ lookup[1].entry # << >>
    /\ lookup[1].time = lookup[1].entry[1].time + ttl_seconds
    /\ lookup[1].time = clock
    /\ lookup[1].result = << >>
    /\ cache[lookup[1].key] = << >>
    /\ \E other \in CacheKeys : cache[other] # << >> /\ IsFresh(cache[other][1])

\* C24: an entry is served from the cache until the ttl_seconds it was stored
\* under have passed, the decorator's if it has one, and not afterwards.
OverrideTtlHonoured ==
    lookup # << >> =>
        (lookup[1].result # << >>
            <=> lookup[1].entry # << >> /\ LookupInTime(lookup[1].entry[1].ttl))

\* C30: a call that misses the cache while another call for the same key is
\* awaiting the function does not execute the function again.
SingleFlight ==
    \A c \in DOMAIN calls :
        (calls[c].pc # "idle" /\ calls[c].joined # {}) => ~ calls[c].executed

-----------------------------------------------------------------------------
(* Part 10: GracefulShutdown, src/src/shutdown.py lines 21-157             *)
(* The server's event loop is running, so a signal handler schedules       *)
(* _trigger_shutdown as a task (line 84). A task is at one of its awaits:  *)
(* the sleep of loop iteration i, or the callback it is about to run.      *)

MaxInFlight == 2    \* most requests in flight
MaxCallbacks == 2   \* most registered shutdown callbacks
MaxTasks == 2       \* most coroutines that run the callbacks

shutdown_timeout == 30          \* shutdown_timeout = 30

Requests == 1..MaxInFlight
Callbacks == 1..MaxCallbacks

InitShutdown ==
    /\ pc = "serving"
    /\ should_exit = FALSE
    /\ force_exit = FALSE
    /\ exited = FALSE
    /\ shutdown_tasks = << >>
    /\ in_flight \in SUBSET Requests
    /\ at_signal = << >>
    /\ executed = [callback \in Callbacks |-> 0]
    /\ reply = << >>
    /\ QueryIdle
    /\ ChunkerIdle
    /\ PoolIdle
    /\ ScrapeIdle
    /\ GraphIdle
    /\ SectionIdle
    /\ LimiterIdle
    /\ CacheIdle
    /\ CrawlIdle

\* history: the requests in flight when the first signal arrives
Signalled == IF at_signal = << >> THEN << in_flight >> ELSE at_signal

\* _initiate_shutdown, line 84: asyncio.create_task(self._trigger_shutdown())
Triggered ==
    Append(shutdown_tasks, [by |-> "signal", pc |-> "waiting", i |-> 0, callback |-> 1])

\* _handle_sigint, lines 66-68: the first SIGINT
FirstSigint ==
    /\ pc = "serving" /\ ~ exited
    /\ ~ should_exit
    /\ Len(shutdown_tasks) < MaxTasks
    /\ should_exit' = TRUE
    /\ shutdown_tasks' = Triggered
    /\ at_signal' = Signalled
    /\ UNCHANGED << pc, reply, force_exit, exited, in_flight, executed >>
    /\ UNCHANGED outsideShutdown

\* _handle_sigint, lines 61-65, and _force_shutdown: SIGINT once should_exit
\* is set
ForcingSigint ==
    /\ pc = "serving" /\ ~ exited
    /\ should_exit
    /\ force_exit' = TRUE
    /\ exited' = TRUE
    /\ UNCHANGED << pc, reply, should_exit, shutdown_tasks, in_flight, at_signal,
                    executed >>
    /\ UNCHANGED outsideShutdown

\* _handle_sigterm, lines 70-74
Sigterm ==
    /\ pc = "serving" /\ ~ exited
    /\ Len(shutdown_tasks) < MaxTasks
    /\ should_exit' = TRUE
    /\ shutdown_tasks' = Triggered
    /\ at_signal' = Signalled
    /\ UNCHANGED << pc, reply, force_exit, exited, in_flight, executed >>
    /\ UNCHANGED outsideShutdown

\* _app_shutdown_handler, lines 115-118: the application's shutdown event
AppShutdown ==
    /\ pc = "serving" /\ ~ exited
    /\ Len(shutdown_tasks) < MaxTasks
    /\ \A t \in DOMAIN shutdown_tasks : shutdown_tasks[t].by # "app"
    /\ shutdown_tasks' = Append(shutdown_tasks,
                                [by |-> "app", pc |-> "callbacks", i |-> 0, callback |-> 1])
    /\ UNCHANGED << pc, reply, should_exit, force_exit, exited, in_flight, at_signal,
                    executed >>
    /\ UNCHANGED outsideShutdown

\* a request in flight completes
RequestCompletes ==
    /\ pc = "serving" /\ ~ exited
    /\ \E request \in in_flight : in_flight' = in_flight \ {request}
    /\ UNCHANGED << pc, reply, should_exit, force_exit, exited, shutdown_tasks,
                    at_signal, executed >>
    /\ UNCHANGED outsideShutdown

\* _trigger_shutdown, lines 101-108: one iteration of the waiting loop, up to
\* its sleep or out of the loop
Wait ==
    /\ pc = "serving" /\ ~ exited
    /\ \E t \in DOMAIN shutdown_tasks :
        LET i == shutdown_tasks[t].i
        IN  /\ shutdown_tasks[t].pc = "waiting"
            /\ shutdown_tasks' = [shutdown_tasks EXCEPT ![t] =
                  IF force_exit THEN [@ EXCEPT !.pc = "callbacks"]
                  ELSE IF i < shutdown_timeout - 1 THEN [@ EXCEPT !.i = i + 1]
                  ELSE [@ EXCEPT !.pc = "callbacks"]]
    /\ UNCHANGED << pc, reply, should_exit, force_exit, exited, in_flight, at_signal,
                    executed >>
    /\ UNCHANGED outsideShutdown

\* _run_shutdown_callbacks, lines 124-132: the next callback is run
RunCallback ==
    /\ pc = "serving" /\ ~ exited
    /\ \E t \in DOMAIN shutdown_tasks :
        LET callback == shutdown_tasks[t].callback
        IN  /\ shutdown_tasks[t].pc = "callbacks"
            /\ callback \in Callbacks
            /\ executed' = [executed EXCEPT ![callback] = @ + 1]
            /\ shutdown_tasks' = [shutdown_tasks EXCEPT ![t] =
                  IF callback + 1 \in Callbacks THEN [@ EXCEPT !.callback = callback + 1]
                  ELSE [@ EXCEPT !.pc = "done", !.callback = callback + 1]]
    /\ UNCHANGED << pc, reply, should_exit, force_exit, exited, in_flight, at_signal >>
    /\ UNCHANGED outsideShutdown

NextShutdown ==
    \/ FirstSigint \/ ForcingSigint \/ Sigterm \/ AppShutdown
    \/ RequestCompletes \/ Wait \/ RunCallback

SpecShutdown == InitShutdown /\ [][NextShutdown]_vars

-----------------------------------------------------------------------------
(* Properties of GracefulShutdown                                          *)

\* the tasks a signal started that are through their wait and about to run
\* the first callback
StartingCallbacks ==
    {t \in DOMAIN shutdown_tasks : /\ shutdown_tasks[t].by = "signal"
                                   /\ shutdown_tasks[t].pc = "callbacks"
                                   /\ shutdown_tasks[t].callback = 1}

\* C25: after SIGTERM or a first SIGINT the callbacks start only once every
\* request that was in flight when the signal arrived has completed, unless
\* a forced exit was requested.
CallbacksAfterInFlight ==
    StartingCallbacks # {} => (force_exit \/ at_signal[1] \cap in_flight = {})

\* C29: each registered shutdown callback is executed at most once.
CallbacksRunOnce == \A callback \in DOMAIN executed : executed[callback] <= 1

-----------------------------------------------------------------------------
(* The reranker thread after a timeout                                     *)

\* C26: when the reranking step timed out, no result of the response carries
\* a rerank_score.
TimeoutLeavesNoScore ==
    (pc = "done" /\ rerank_outcome = "timeout") =>
        \A i \in DOMAIN rerank_scores : rerank_scores[i] = NoScore

-----------------------------------------------------------------------------
(* Progress of the RAG fan-outs                                            *)

\* C27: whatever max_rag_workers is, every sub-query eventually acquires the
\* semaphore and finishes, and the tool call eventually returns.
FanOutCompletes == <>(pc = "done" /\ \A i \in DOMAIN tasks : Finished(tasks[i]))

-----------------------------------------------------------------------------
(* Part 11: crawl_recursive_internal_links, lines 2695-2744                *)
(* A URL is a page and a fragment. The site is what the crawler answers:   *)
(* for a requested page the URL its result reports (another page after a   *)
(* redirect), whether the result succeeded, and the links of the page      *)
(* served.                                                                 *)

MaxPages == 2       \* pages of the site
MaxLinks == 2       \* most internal links on a page
MaxDepth == 3       \* largest max_depth

Pages == 1..MaxPages
Fragments == {"", "top"}
Urls == [page : Pages, fragment : Fragments]
LinkSets == {hrefs \in SUBSET Urls : Cardinality(hrefs) <= MaxLinks}

\* normalize_url, lines 2717-2718: urldefrag(url)[0]
normalize_url(url) == [url EXCEPT !.fragment = ""]

\* lines 2731-2733: visited.add(norm_url) for the URL of every result
Visited(seen, requested, reported) == seen \cup reported

InitCrawl ==
    /\ pc = "crawling"
    /\ start_urls \in {{url} : url \in Urls}
    /\ max_depth \in 0..MaxDepth
    /\ links \in [Pages -> LinkSets]
    /\ reports \in [Pages -> Pages]
    /\ failing \in SUBSET Pages
    /\ visited = {}
    /\ current_urls = {normalize_url(u) : u \in start_urls}
    /\ depth = 0
    /\ submitted = << >>
    /\ reply = << >>
    /\ QueryIdle
    /\ ChunkerIdle
    /\ PoolIdle
    /\ ScrapeIdle
    /\ GraphIdle
    /\ SectionIdle
    /\ LimiterIdle
    /\ CacheIdle
    /\ ShutdownIdle

\* line 2724
UrlsToCrawl == {normalize_url(url) : url \in {u \in current_urls : normalize_url(u) \notin visited}}

\* lines 2723-2742: one round of the loop, from the choice of the URLs to the
\* next level. The links are held against visited as it is after the round;
\* a link the code keeps because its page's result came later in the list is
\* dropped by line 2724 in the next round.
CrawlRound ==
    /\ pc = "crawling"
    /\ depth < max_depth
    /\ UrlsToCrawl # {}
    /\ LET urls_to_crawl == UrlsToCrawl
           reported == {normalize_url([page |-> reports[u.page], fragment |-> ""]) :
                           u \in urls_to_crawl}
           seen == Visited(visited, urls_to_crawl, reported)
           linked == UNION {links[reports[u.page]] :
                               u \in {r \in urls_to_crawl : reports[r.page] \notin failing}}
       IN  /\ submitted' = Append(submitted, urls_to_crawl)
           /\ visited' = seen
           /\ current_urls' = {normalize_url(link) : link \in linked} \ seen
    /\ depth' = depth + 1
    /\ UNCHANGED << pc, reply, start_urls, max_depth, links, reports, failing >>
    /\ UNCHANGED outsideCrawl

\* lines 2723-2726 and 2744: the loop is over, results_all is returned
ReturnResults ==
    /\ pc = "crawling"
    /\ depth >= max_depth \/ UrlsToCrawl = {}
    /\ pc' = "done"
    /\ UNCHANGED << reply, crawlVars >>
    /\ UNCHANGED outsideCrawl

NextCrawl == CrawlRound \/ ReturnResults

SpecCrawl == InitCrawl /\ [][NextCrawl]_vars

-----------------------------------------------------------------------------
(* Properties of crawl_recursive_internal_links                            *)

\* C28: no fragment-stripped URL is submitted to the crawler in two rounds,
\* and at most max_depth rounds are run.
NoUrlCrawledTwice ==
    /\ Len(submitted) <= max_depth
    /\ \A r1, r2 \in DOMAIN submitted :
        r1 < r2 => {normalize_url(u) : u \in submitted[r1]}
                       \cap {normalize_url(u) : u \in submitted[r2]} = {}

====
